---- MODULE Spec2Model ----
(***************************************************************************)
(* Model of the lesson generator's service layer                            *)
(* (src/services/geminiService.ts): the Retry Governor withRetry, the       *)
(* Model Gateway callGemini, the five-stage pipeline generateLessonPlan     *)
(* and its string-splicing assembly; the session that calls them           *)
(* (src/App.tsx, src/unnamed/part_000: ChatPanel); and the attachment      *)
(* collection of the input form (src/components/InputForm.tsx).            *)
(*                                                                         *)
(* Text is a sequence of tokens.  A token is one character (a backtick, "$", *)
(* "&", ...) or one indivisible piece of markup ("</body>", the content marker,  *)
(* the word html).  Every string operation of the source (includes,        *)
(* replace with a string pattern, replace with a /g regular expression,    *)
(* toLowerCase) is defined over such sequences the way JavaScript defines   *)
(* it over characters.                                                     *)
(***************************************************************************)
EXTENDS Integers, Sequences, FiniteSets, TLC

VARIABLES
    pc,          \* position of the caller: the pipeline's, or "withRetry" for a bare call
    stage,       \* pipeline stage being run, 1..5 (0 before the first)
    out,         \* out[n]: the text stage n returned, for the stages that have returned
    statusMsg,   \* last status handed to onStatusUpdate (its stage number, 6 = assembly)
    statusLog,   \* the statuses the pipeline run handed to onStatusUpdate, in order
    cooled,      \* milliseconds of cooldown() taken by the pipeline run
    parts,       \* generateLessonPlan's parts: the payload of stage 1
    rpc,         \* position inside withRetry
    i,           \* withRetry's loop counter
    maxRetries,  \* withRetry's second argument
    lastError,   \* withRetry's lastError
    delay,       \* the backoff being slept, 0 when not sleeping
    calls,       \* invocations of fn made by the current withRetry
    slept,       \* milliseconds of backoff slept by the current withRetry
    pending,     \* model requests in flight
    settled,     \* the settlement of fn's promise that withRetry's await resumes with
    failures,    \* rejections of fn seen by the current withRetry
    retval,      \* what the current withRetry returned or threw
    cooldowns,   \* cooldown() pauses taken by the pipeline run
    started,     \* the stages for which a model request has gone out
    result,      \* what generateLessonPlan returned or threw
    lastReply,   \* what the service answered the last request with
    currentView,    \* App: 'input' or 'workspace'
    generatedHtml,  \* App: the stored artifact
    isProcessing,   \* App: the processing flag
    chatMessages,   \* App: the conversation log
    alerted,        \* App: the alert handleGenerate showed last ("none" before)
    currentHtml,    \* the artifact handleRefine passed to refineLessonPlan
    attachments,    \* the attachments handleGenerate was called with
    generations,    \* how many times handleGenerate was called
    files,          \* InputForm: the attachment collection
    norm,           \* one normalization per processFile call, by identifier
    removed,        \* the identifiers removeFile was called with
    mode,           \* InputForm: 'text', 'url' or 'file'
    textInput,      \* InputForm: text, the instructions typed
    url,            \* InputForm: the link typed
    now,            \* the clock handleDownload reads
    fileName        \* the name handleDownload gave the download

appVars == <<currentView, generatedHtml, isProcessing, chatMessages, alerted,
             currentHtml, attachments, generations>>

fileVars == <<files, norm, removed>>
downloadVars == <<now, fileName>>
formVars == <<mode, textInput, url>>

\* the variables outside the service layer
otherVars == <<appVars, fileVars, downloadVars, formVars>>

vars == <<pc, stage, out, statusMsg, statusLog, cooled, parts, rpc, i, maxRetries, lastError, delay, calls,
          slept, pending, settled, failures, retval, cooldowns, started, result,
          lastReply, otherVars>>

retryVars == <<rpc, i, maxRetries, lastError, delay, calls, slept, pending, settled,
               failures, retval>>
pipeVars == <<pc, stage, out, statusMsg, statusLog, cooled, parts, cooldowns, result>>
serviceVars == <<pipeVars, retryVars, started, lastReply>>
\* started is written by RetryInvoke alone

(***************************************************************************)
(* Bounds                                                                  *)
(***************************************************************************)
MaxRetriesArg == 5      \* largest maxRetries a bare withRetry call is given
MaxShellLen == 3        \* most pieces in a shell output of the assembly check
MaxContentLen == 2      \* most pieces in a content output of the assembly check
MaxScriptLen == 1       \* most pieces in a script output of the assembly check

(***************************************************************************)
(* Values of the JavaScript run time                                       *)
(***************************************************************************)
\* a promise, a call or a run that has not settled yet
None == [kind |-> "none"]
Fulfilled(v) == [kind |-> "fulfilled", value |-> v]
Rejected(e) == [kind |-> "rejected", reason |-> e]

\* the value undefined where an error is expected (lastError before any catch):
\* it has no status and no message, and no invocation raised it
UndefinedError == [status |-> 0, hasMessage |-> FALSE, message |-> <<>>, stage |-> 0, at |-> 0]

(***************************************************************************)
(* String operations                                                       *)
(***************************************************************************)
\* s.startsWith(p, k - 1): p occurs in s at position k (1-based)
MatchesAt(s, p, k) ==
    /\ k >= 1
    /\ k + Len(p) - 1 <= Len(s)
    /\ \A j \in 1..Len(p) : s[k + j - 1] = p[j]

\* s.indexOf(p) + 1: the position of the first occurrence, 0 when there is none
IndexOf(s, p) ==
    LET hits == {k \in 1..(Len(s) + 1) : MatchesAt(s, p, k)}
    IN IF hits = {} THEN 0 ELSE CHOOSE k \in hits : \A m \in hits : k <= m

\* s.includes(p)
Includes(s, p) == IndexOf(s, p) # 0

\* number of positions at which p occurs in s
Occurrences(s, p) == Cardinality({k \in 1..(Len(s) + 1) : MatchesAt(s, p, k)})

\* s.replace(/p/g, ''): every leftmost non-overlapping occurrence of the
\* literal p is deleted in one left-to-right scan
RECURSIVE RemoveAll(_, _)
RemoveAll(s, p) ==
    IF Len(s) < Len(p) \/ Len(s) = 0 THEN s
    ELSE IF MatchesAt(s, p, 1) THEN RemoveAll(SubSeq(s, Len(p) + 1, Len(s)), p)
    ELSE <<Head(s)>> \o RemoveAll(Tail(s), p)

\* the character U+0060 (written by name: the lexer of the tools reads a
\* grave accent inside a string as the opening of a quotation)
Backtick == "BACKTICK"
Apostrophe == "APOSTROPHE"

\* the replacement text of String.prototype.replace(string, string): $$ is a
\* dollar sign, $& the matched text, $ with a backtick the text before the
\* match, $ with an apostrophe the text after it; any other $ stands for itself
RECURSIVE GetSubstitution(_, _, _, _)
GetSubstitution(r, matched, before, after) ==
    IF Len(r) = 0 THEN <<>>
    ELSE IF Head(r) = "$" /\ Len(r) >= 2 /\ r[2] \in {"$", "&", Backtick, Apostrophe}
    THEN (CASE r[2] = "$" -> <<"$">>
            [] r[2] = "&" -> matched
            [] r[2] = Backtick -> before
            [] r[2] = Apostrophe -> after)
         \o GetSubstitution(SubSeq(r, 3, Len(r)), matched, before, after)
    ELSE <<Head(r)>> \o GetSubstitution(Tail(r), matched, before, after)

\* s.replace(p, r) with a string pattern p: the first occurrence only
ReplaceFirst(s, p, r) ==
    LET k == IndexOf(s, p)
        before == SubSeq(s, 1, k - 1)
        after == SubSeq(s, k + Len(p), Len(s))
    IN IF k = 0 THEN s
       ELSE before \o GetSubstitution(r, p, before, after) \o after

UpperChars == <<"A", "B", "C", "D", "E", "F", "G", "H", "I", "J", "K", "L", "M",
                "N", "O", "P", "Q", "R", "S", "T", "U", "V", "W", "X", "Y", "Z">>
LowerChars == <<"a", "b", "c", "d", "e", "f", "g", "h", "i", "j", "k", "l", "m",
                "n", "o", "p", "q", "r", "s", "t", "u", "v", "w", "x", "y", "z">>

\* s.toLowerCase(), character by character
toLowerCase(s) ==
    [k \in 1..Len(s) |->
        IF \E u \in 1..26 : UpperChars[u] = s[k]
        THEN LowerChars[CHOOSE u \in 1..26 : UpperChars[u] = s[k]]
        ELSE s[k]]

\* all sequences over alphabet of length at most n
SeqsUpTo(alphabet, n) == UNION {[1..k -> alphabet] : k \in 0..n}

\* the pieces of q, joined
RECURSIVE Join(_)
Join(q) == IF Len(q) = 0 THEN <<>> ELSE Head(q) \o Join(Tail(q))

\* the texts made of at most n of the given pieces
TextsOf(pieces, n) == {Join(q) : q \in SeqsUpTo(pieces, n)}

(***************************************************************************)
(* The external service: what one request can come back with                *)
(***************************************************************************)
Chars429 == <<"4", "2", "9">>
CharsResourceExhausted == <<"r", "e", "s", "o", "u", "r", "c", "e", "_",
                            "e", "x", "h", "a", "u", "s", "t", "e", "d">>

\* messages of the errors the service raises
ErrorMessages ==
    { <<"R", "E", "S", "O", "U", "R", "C", "E", "_", "E", "X", "H", "A", "U", "S", "T", "E", "D">>,
      <<"R", "e", "s", "o", "u", "r", "c", "e", " ", "e", "x", "h", "a", "u", "s", "t", "e", "d">>,
      <<"g", "o", "t", " ", "4", "2", "9">>,
      <<"B", "a", "d", " ", "r", "e", "q", "u", "e", "s", "t">>,
      <<>> }

\* status fields of the errors the service raises (0: the error has none)
ErrorStatuses == {0, 429, 500}

\* the errors a request can fail with, before the request stamps them
ServiceErrors ==
    [status : ErrorStatuses, hasMessage : {TRUE}, message : ErrorMessages]
    \cup [status : ErrorStatuses, hasMessage : {FALSE}, message : {<<>>}]

ContentMarker == <<"<!-- CONTENT_PLACEHOLDER -->">>
BodyClose == <<"</body>">>

\* response.text of the responses of a pipeline run
ResponseTexts == { <<"x">>, ContentMarker \o BodyClose }

\* the responses a request can succeed with: text, or none
ServiceResponses ==
    [hasText : {TRUE}, text : ResponseTexts] \cup [hasText : {FALSE}, text : {<<"undefined">>}]

(***************************************************************************)
(* withRetry                                                               *)
(***************************************************************************)
DefaultMaxRetries == 5

\* const errorMessage = error?.message?.toLowerCase() || ""
errorMessage(error) == IF error.hasMessage THEN toLowerCase(error.message) ELSE <<>>

\* a classification that takes any error carrying a status for a rate limit
isRateLimitAnyStatus(error) ==
    \/ Includes(errorMessage(error), Chars429)
    \/ Includes(errorMessage(error), CharsResourceExhausted)
    \/ error.status # 0

\* a classification that does not look for 429 in the message
isRateLimitNoCodeInText(error) ==
    \/ Includes(errorMessage(error), CharsResourceExhausted)
    \/ error.status = 429

isRateLimit(error) ==
    \/ Includes(errorMessage(error), Chars429)
    \/ Includes(errorMessage(error), CharsResourceExhausted)
    \/ error.status = 429

\* a backoff that grows linearly
BackoffLinear(attempt) == (attempt + 1) * 5000

\* const delay = Math.pow(2, i) * 5000
Backoff(attempt) == (2 ^ attempt) * 5000

\* a loop that runs once too often
LoopConditionInclusive(attempt, max) == attempt <= max

\* the loop condition of for (let i = 0; i < maxRetries; i++)
LoopCondition(attempt, max) == attempt < max

\* App before anything was asked: the useState initial values
AppInit ==
    /\ currentView = "input"
    /\ generatedHtml = <<>>
    /\ isProcessing = FALSE
    /\ chatMessages = <<>>
    /\ alerted = "none"
    /\ currentHtml = <<>>
    /\ attachments = <<>>
    /\ generations = 0

\* a value that is not there, and one that is
Unset == [set |-> FALSE, value |-> <<>>]
Set(v) == [set |-> TRUE, value |-> v]

\* InputForm before a file was chosen
FilesInit ==
    /\ files = <<>>
    /\ norm = <<>>
    /\ removed = {}

\* nothing was downloaded; the clock is not read
DownloadInit ==
    /\ now = [year |-> 2026, month |-> 0, date |-> 1]
    /\ fileName = Unset

\* the input form as it is mounted
FormInit ==
    /\ mode = "text"
    /\ textInput = <<>>
    /\ url = <<>>

\* nothing outside the service layer has happened
OtherInit == AppInit /\ FilesInit /\ DownloadInit /\ FormInit

\* a retry loop whose counters outlive the call
EnterRetryKeepingCounters(max) ==
    /\ rpc' = "loop"
    /\ i' = i
    /\ maxRetries' = max
    /\ lastError' = lastError
    /\ delay' = 0
    /\ calls' = calls
    /\ slept' = slept
    /\ failures' = failures
    /\ settled' = None
    /\ retval' = None
    /\ pending' = pending
    /\ started' = started
    /\ lastReply' = None

\* withRetry(fn, max) is entered
EnterRetry(max) ==
    /\ rpc' = "loop"
    /\ i' = 0
    /\ maxRetries' = max
    /\ lastError' = UndefinedError
    /\ delay' = 0
    /\ calls' = 0
    /\ slept' = 0
    /\ failures' = 0
    /\ settled' = None
    /\ retval' = None
    /\ pending' = pending
    /\ started' = started
    /\ lastReply' = None

\* return await fn(): fn is invoked, its request goes out
RetryInvoke ==
    /\ rpc = "loop"
    /\ LoopCondition(i, maxRetries)
    /\ calls' = calls + 1
    /\ pending' = pending \cup {[stage |-> stage, at |-> calls + 1]}
    /\ started' = started \cup {stage}
    /\ settled' = None
    /\ rpc' = "await"
    /\ UNCHANGED <<i, maxRetries, lastError, delay, slept, failures, retval>>
    /\ UNCHANGED pipeVars
    /\ UNCHANGED <<lastReply, otherVars>>

\* the code-fence delimiters the source strips
Fence == <<Backtick, Backtick, Backtick>>
FenceHtml == Fence \o <<"html">>
FenceJavascript == Fence \o <<"javascript">>

\* a gateway that hands on response.text as it is
callGeminiRaw(response) == response.text

\* callGemini: return response.text || ""
callGemini(response) ==
    IF response.hasText /\ Len(response.text) > 0 THEN response.text ELSE <<>>

\* response.text.replace(/^FenceHtml/, ''): a fence at the very start only
StripLeadingFenceHtml(text) ==
    IF MatchesAt(text, FenceHtml, 1) THEN SubSeq(text, Len(FenceHtml) + 1, Len(text)) ELSE text

\* .replace(/Fence$/, ''): a fence at the very end only
StripTrailingFence(text) ==
    IF Len(text) >= Len(Fence) /\ MatchesAt(text, Fence, Len(text) - Len(Fence) + 1)
    THEN SubSeq(text, 1, Len(text) - Len(Fence))
    ELSE text

\* refineLessonPlan's operation:
\* return response.text?.replace(...).replace(...) || currentHtml
refineResult(response, current) ==
    LET stripped == StripTrailingFence(StripLeadingFenceHtml(response.text))
    IN IF response.hasText /\ Len(stripped) > 0 THEN stripped ELSE current

\* what the operation under withRetry resolves with: refineLessonPlan's
\* closure during a refinement, callGemini otherwise
fnResult(response) ==
    IF pc = "refine" THEN refineResult(response, currentHtml) ELSE callGemini(response)

\* the service answers a request in flight, with one of the responses or with
\* an error
ServiceRespondWith(responses) ==
    /\ \E req \in pending :
        /\ pending' = pending \ {req}
        /\ \/ \E response \in responses :
                 /\ settled' = Fulfilled(fnResult(response))
                 /\ failures' = failures
                 /\ lastReply' = Fulfilled(response)
           \/ \E e \in ServiceErrors :
                 /\ settled' = Rejected([status |-> e.status, hasMessage |-> e.hasMessage,
                                         message |-> e.message, stage |-> req.stage,
                                         at |-> req.at])
                 /\ failures' = failures + 1
                 /\ lastReply' = Rejected(e)
    /\ UNCHANGED <<rpc, i, maxRetries, lastError, delay, calls, slept, retval>>
    /\ UNCHANGED <<pipeVars, started>>
    /\ UNCHANGED otherVars

ServiceRespond == ServiceRespondWith(ServiceResponses)

\* the await resumes with a value: withRetry returns it
RetryReturn ==
    /\ rpc = "await"
    /\ settled.kind = "fulfilled"
    /\ retval' = Fulfilled(settled.value)
    /\ rpc' = "returned"
    /\ UNCHANGED <<i, maxRetries, lastError, delay, calls, slept, pending, settled, failures>>
    /\ UNCHANGED <<pipeVars, started>>
    /\ UNCHANGED <<lastReply, otherVars>>

\* a catch block that throws at once when no attempt is left to make
RetryCatchThrowingAtLast ==
    /\ rpc = "await"
    /\ settled.kind = "rejected"
    /\ lastError' = settled.reason
    /\ IF isRateLimit(settled.reason) /\ i + 1 < maxRetries
       THEN /\ delay' = Backoff(i)
            /\ rpc' = "sleep"
            /\ retval' = retval
       ELSE /\ delay' = 0
            /\ rpc' = "thrown"
            /\ retval' = Rejected(settled.reason)
    /\ UNCHANGED <<i, maxRetries, calls, slept, pending, settled, failures>>
    /\ UNCHANGED <<pipeVars, started>>
    /\ UNCHANGED <<lastReply, otherVars>>

\* the await resumes with an error: the catch block
RetryCatch ==
    /\ rpc = "await"
    /\ settled.kind = "rejected"
    /\ lastError' = settled.reason
    /\ IF isRateLimit(settled.reason)
       THEN /\ delay' = Backoff(i)
            /\ rpc' = "sleep"
            /\ retval' = retval
       ELSE /\ delay' = 0
            /\ rpc' = "thrown"
            /\ retval' = Rejected(settled.reason)
    /\ UNCHANGED <<i, maxRetries, calls, slept, pending, settled, failures>>
    /\ UNCHANGED <<pipeVars, started>>
    /\ UNCHANGED <<lastReply, otherVars>>

\* the backoff timer fires: continue, and the loop's i++
RetryWake ==
    /\ rpc = "sleep"
    /\ slept' = slept + delay
    /\ delay' = 0
    /\ i' = i + 1
    /\ rpc' = "loop"
    /\ UNCHANGED <<maxRetries, lastError, calls, pending, settled, failures, retval>>
    /\ UNCHANGED <<pipeVars, started>>
    /\ UNCHANGED <<lastReply, otherVars>>

\* the loop ends: throw lastError
RetryExhausted ==
    /\ rpc = "loop"
    /\ ~LoopCondition(i, maxRetries)
    /\ retval' = Rejected(lastError)
    /\ rpc' = "thrown"
    /\ UNCHANGED <<i, maxRetries, lastError, delay, calls, slept, pending, settled, failures>>
    /\ UNCHANGED <<pipeVars, started>>
    /\ UNCHANGED <<lastReply, otherVars>>

RetryStep == RetryInvoke \/ ServiceRespond \/ RetryReturn \/ RetryCatch \/ RetryWake \/ RetryExhausted

(***************************************************************************)
(* A bare call withRetry(fn, maxRetries)                                   *)
(***************************************************************************)
InitRetry ==
    /\ pc = "withRetry"
    /\ stage = 0
    /\ out = <<>>
    /\ statusMsg = 0
    /\ statusLog = <<>>
    /\ cooled = 0
    /\ parts = <<>>
    /\ cooldowns = 0
    /\ started = {}
    /\ result = None
    /\ rpc = "loop"
    /\ i = 0
    /\ maxRetries \in 0..MaxRetriesArg
    /\ lastError = UndefinedError
    /\ delay = 0
    /\ calls = 0
    /\ slept = 0
    /\ failures = 0
    /\ pending = {}
    /\ settled = None
    /\ retval = None
    /\ lastReply = None
    /\ OtherInit

NextRetry == RetryStep

SpecRetry == InitRetry /\ [][NextRetry]_vars

(***************************************************************************)
(* generateLessonPlan                                                      *)
(***************************************************************************)
FallbackOpen == <<"<div class=\"container py-5\"><div class=\"row\">">>
FallbackClose == <<"</div></div>">>

\* shell.replace(/FenceHtml/g, '').replace(/Fence/g, ''), and the same for contentHtml
StripHtmlFences(text) == RemoveAll(RemoveAll(text, FenceHtml), Fence)

\* script.replace(/FenceJavascript/g, '').replace(/Fence/g, '')
StripScriptFences(text) == RemoveAll(RemoveAll(text, FenceJavascript), Fence)

\* the if/else that puts the content into the shell
SpliceContent(html, cleanContent) ==
    IF Includes(html, ContentMarker)
    THEN ReplaceFirst(html, ContentMarker, cleanContent)
    ELSE ReplaceFirst(html, BodyClose, FallbackOpen \o cleanContent \o FallbackClose \o BodyClose)

\* finalHtml.replace("</body>", cleanScript + "</body>")
SpliceScript(html, cleanScript) == ReplaceFirst(html, BodyClose, cleanScript \o BodyClose)

\* the ASSEMBLY block: the document built from the three stage outputs
Assembly(shell, contentHtml, script) ==
    SpliceScript(SpliceContent(StripHtmlFences(shell), StripHtmlFences(contentHtml)),
                 StripScriptFences(script))

\* a pipeline that goes from the asset manifest straight to the content
NextStageSkippingShell(n) == IF n = 2 THEN 4 ELSE n + 1

\* the stage whose await follows stage n's cooldown
NextStage(n) == n + 1

\* a catch block that throws an error of its own
PipelineRethrowWrapped(error) ==
    [status |-> 0, hasMessage |-> TRUE, message |-> <<>>, stage |-> 0, at |-> 0]

\* catch (error) { console.error(...); throw error; }
PipelineRethrow(error) == error

\* a cooldown that grows with the backoff the stage slept
CooldownAfterBackoff == 1500 + slept

\* const cooldown = () => new Promise(r => setTimeout(r, 1500))
CooldownDelay == 1500

\* a status callback that reports every status twice
updateStatusTwice(log, msg) == Append(Append(log, msg), msg)

\* updateStatus(msg): onStatusUpdate is called with msg
updateStatus(log, msg) == Append(log, msg)

\* the text a caller hands over when the model does not look at it
DraftPrompt == <<"topic">>

\* parts = [{ text: userInput }], then one inlineData part per attachment
PartsOf(userInput, given) ==
    <<[text |-> userInput]>> \o
    [k \in 1..Len(given) |-> [inlineData |-> [mimeType |-> given[k].mimeType,
                                              data |-> given[k].data]]]

\* what stage n's closure hands to callGemini
StageInput(n) ==
    CASE n = 1 -> parts
      [] n = 2 -> <<out[1]>>
      [] n = 3 -> <<>>
      [] OTHER -> <<out[1], out[2]>>

\* generateLessonPlan runs up to its first await: the first status, then
\* stage 1 under withRetry
GenerateCall(userInput, given) ==
    /\ pc = "idle"
    /\ pc' = "stage"
    /\ stage' = 1
    /\ statusMsg' = 1
    /\ statusLog' = updateStatus(statusLog, 1)
    /\ parts' = PartsOf(userInput, given)
    /\ EnterRetry(DefaultMaxRetries)
    /\ UNCHANGED <<out, cooled, cooldowns, result>>

\* generateLessonPlan is called on its own
GenerateStart ==
    /\ GenerateCall(DraftPrompt, attachments)
    /\ UNCHANGED otherVars

\* a stage before the last has returned: its output is kept, await cooldown()
StageReturn ==
    /\ pc = "stage"
    /\ rpc = "returned"
    /\ stage < 5
    /\ out' = (stage :> retval.value) @@ out
    /\ pc' = "cooldown"
    /\ rpc' = "idle"
    /\ UNCHANGED <<stage, statusMsg, statusLog, cooled, parts, cooldowns, result, started>>
    /\ UNCHANGED <<i, maxRetries, lastError, delay, calls, slept, pending, settled,
                   failures, retval>>
    /\ UNCHANGED <<lastReply, otherVars>>

\* the cooldown timer fires: the next status, then the next stage under withRetry
CooldownDone ==
    /\ pc = "cooldown"
    /\ cooldowns' = cooldowns + 1
    /\ stage' = NextStage(stage)
    /\ statusMsg' = NextStage(stage)
    /\ statusLog' = updateStatus(statusLog, NextStage(stage))
    /\ cooled' = cooled + CooldownDelay
    /\ pc' = "stage"
    /\ EnterRetry(DefaultMaxRetries)
    /\ UNCHANGED <<out, parts, result>>
    /\ UNCHANGED otherVars

\* stage 5 has returned: the last status, the assembly, return finalHtml
FinalStageReturn ==
    /\ pc = "stage"
    /\ rpc = "returned"
    /\ stage = 5
    /\ out' = (stage :> retval.value) @@ out
    /\ statusMsg' = 6
    /\ statusLog' = updateStatus(statusLog, 6)
    /\ result' = Fulfilled(Assembly(out[3], out[4], retval.value))
    /\ pc' = "returned"
    /\ rpc' = "idle"
    /\ UNCHANGED <<stage, cooled, parts, cooldowns, started>>
    /\ UNCHANGED <<i, maxRetries, lastError, delay, calls, slept, pending, settled,
                   failures, retval>>
    /\ UNCHANGED <<lastReply, otherVars>>

\* a stage's withRetry has thrown: the catch block throws the error on
StageThrow ==
    /\ pc = "stage"
    /\ rpc = "thrown"
    /\ result' = Rejected(PipelineRethrow(retval.reason))
    /\ pc' = "failed"
    /\ rpc' = "idle"
    /\ UNCHANGED <<stage, out, statusMsg, statusLog, cooled, parts, cooldowns, started>>
    /\ UNCHANGED <<i, maxRetries, lastError, delay, calls, slept, pending, settled,
                   failures, retval>>
    /\ UNCHANGED <<lastReply, otherVars>>

Init ==
    /\ pc = "idle"
    /\ stage = 0
    /\ out = <<>>
    /\ statusMsg = 0
    /\ statusLog = <<>>
    /\ cooled = 0
    /\ parts = <<>>
    /\ cooldowns = 0
    /\ started = {}
    /\ result = None
    /\ rpc = "idle"
    /\ i = 0
    /\ maxRetries = DefaultMaxRetries
    /\ lastError = UndefinedError
    /\ delay = 0
    /\ calls = 0
    /\ slept = 0
    /\ failures = 0
    /\ pending = {}
    /\ settled = None
    /\ retval = None
    /\ lastReply = None
    /\ OtherInit

Next ==
    \/ GenerateStart
    \/ RetryStep
    \/ StageReturn
    \/ CooldownDone
    \/ FinalStageReturn
    \/ StageThrow

Spec == Init /\ [][Next]_vars

(***************************************************************************)
(* The assembly alone: stage 5 has just returned, over a range of stage     *)
(* outputs                                                                 *)
(***************************************************************************)
ShellPieces == {<<"<html>">>, ContentMarker, BodyClose, FenceHtml}
ContentPieces == {<<"<div>X</div>">>, ContentMarker, BodyClose, <<"$", "&">>, Fence}
ScriptPieces == {<<"<script>">>, <<"$", "$">>, FenceJavascript, FenceHtml}

InitAssembly ==
    /\ pc = "stage"
    /\ stage = 5
    /\ \E shell \in TextsOf(ShellPieces, MaxShellLen),
          contentHtml \in TextsOf(ContentPieces, MaxContentLen) :
            out = <<(<<"x">>), (<<"x">>), shell, contentHtml>>
    /\ \E script \in TextsOf(ScriptPieces, MaxScriptLen) :
          /\ settled = Fulfilled(script)
          /\ retval = Fulfilled(script)
          /\ lastReply = Fulfilled([hasText |-> TRUE, text |-> script])
    /\ statusMsg = 5
    /\ statusLog = <<1, 2, 3, 4, 5>>
    /\ cooled = 4 * CooldownDelay
    /\ parts = PartsOf(DraftPrompt, <<>>)
    /\ cooldowns = 4
    /\ started = 1..5
    /\ result = None
    /\ rpc = "returned"
    /\ i = 0
    /\ maxRetries = DefaultMaxRetries
    /\ lastError = UndefinedError
    /\ delay = 0
    /\ calls = 1
    /\ slept = 0
    /\ failures = 0
    /\ pending = {}
    /\ OtherInit

NextAssembly == FinalStageReturn

SpecAssembly == InitAssembly /\ [][NextAssembly]_vars

----------------------------------------------------------------------------
(* The session: src/App.tsx, with the chat panel of src/unnamed/part_000   *)

MaxGenerations == 1
MaxChat == 4

\* the status handleRefine sets: "Refining your lesson..."
StatusRefining == 7

\* what handleGenerate can be called with
AttachmentArgs == { <<>>, <<[mimeType |-> "image/png", data |-> "iVBORw0KGgo="]>> }
\* what the chat panel can send
Requests == { "Make the title blue" }

UserDraftMessage == [role |-> "user", content |-> "Draft this lesson plan."]
UserCreatedMessage == [role |-> "user", content |-> "Created lesson from file(s) with instructions"]
AiBuiltMessage == [role |-> "ai", content |-> "I have analyzed your input and built the initial interactive lesson"]
AiUpdatedMessage == [role |-> "ai", content |-> "Code updated! The preview has been refreshed."]
AiLimitMessage == [role |-> "ai", content |-> "Sorry, the AI is at its limit."]
AiErrorMessage == [role |-> "ai", content |-> "Sorry, I encountered an error while updating the code."]

CharsResourceExhaustedUpper ==
    <<"R","E","S","O","U","R","C","E","_","E","X","H","A","U","S","T","E","D">>

\* error?.message?.includes('429') || error?.message?.includes('RESOURCE_EXHAUSTED')
isQuotaError(error) ==
    /\ error.hasMessage
    /\ \/ Includes(error.message, Chars429)
       \/ Includes(error.message, CharsResourceExhaustedUpper)

\* the locals of a finished call are gone: the service layer is as before it
ServiceReset ==
    /\ pc' = "idle"
    /\ stage' = 0
    /\ out' = <<>>
    /\ statusLog' = <<>>
    /\ cooled' = 0
    /\ parts' = <<>>
    /\ cooldowns' = 0
    /\ started' = {}
    /\ result' = None
    /\ rpc' = "idle"
    /\ i' = 0
    /\ maxRetries' = DefaultMaxRetries
    /\ lastError' = UndefinedError
    /\ delay' = 0
    /\ calls' = 0
    /\ slept' = 0
    /\ failures' = 0
    /\ pending' = pending
    /\ settled' = None
    /\ retval' = None
    /\ lastReply' = None

\* handleGenerate(prompt, attachments) up to its await
onGenerate(prompt, given) ==
    /\ attachments' = given
    /\ GenerateCall(prompt, given)
    /\ generations' = generations + 1
    /\ isProcessing' = TRUE
    /\ UNCHANGED <<currentView, generatedHtml, chatMessages, alerted, currentHtml>>

\* the input form, shown in the 'input' view and live while isGenerating is
\* false, submits a draft
HandleGenerate ==
    /\ currentView = "input"
    /\ ~isProcessing
    /\ generations < MaxGenerations
    /\ \E attach \in AttachmentArgs : onGenerate(DraftPrompt, attach)
    /\ UNCHANGED <<fileVars, downloadVars, formVars>>

\* handleGenerate after its await, generateLessonPlan having returned
GenerateReturn ==
    /\ pc = "returned"
    /\ generatedHtml' = result.value
    /\ chatMessages' = << (IF Len(attachments) > 0 THEN UserCreatedMessage
                                                   ELSE UserDraftMessage),
                          AiBuiltMessage >>
    /\ currentView' = "workspace"
    /\ isProcessing' = FALSE
    /\ attachments' = <<>>
    /\ ServiceReset
    /\ UNCHANGED <<statusMsg, alerted, currentHtml, generations>>
    /\ UNCHANGED <<fileVars, downloadVars, formVars>>

\* a catch block that opens the workspace all the same
GenerateCatchOpeningWorkspace ==
    /\ pc = "failed"
    /\ alerted' = IF isQuotaError(result.reason) THEN "rate limit" ELSE "failed"
    /\ pc' = "alert"
    /\ currentView' = "workspace"
    /\ UNCHANGED <<stage, out, statusMsg, statusLog, cooled, parts, cooldowns, result,
                   started, lastReply>>
    /\ UNCHANGED retryVars
    /\ UNCHANGED <<generatedHtml, isProcessing, chatMessages,
                   currentHtml, attachments, generations>>
    /\ UNCHANGED <<fileVars, downloadVars, formVars>>

\* handleGenerate's catch block: the alert is up
GenerateCatch ==
    /\ pc = "failed"
    /\ alerted' = IF isQuotaError(result.reason) THEN "rate limit" ELSE "failed"
    /\ pc' = "alert"
    /\ UNCHANGED <<stage, out, statusMsg, statusLog, cooled, parts, cooldowns, result,
                   started, lastReply>>
    /\ UNCHANGED retryVars
    /\ UNCHANGED <<currentView, generatedHtml, isProcessing, chatMessages,
                   currentHtml, attachments, generations>>
    /\ UNCHANGED <<fileVars, downloadVars, formVars>>

\* the alert is dismissed: handleGenerate's finally block
AlertDismissed ==
    /\ pc = "alert"
    /\ alerted' = "none"
    /\ isProcessing' = FALSE
    /\ attachments' = <<>>
    /\ ServiceReset
    /\ UNCHANGED <<statusMsg, currentView, generatedHtml, chatMessages, currentHtml,
                   generations>>
    /\ UNCHANGED <<fileVars, downloadVars, formVars>>

\* a chat panel that sends whatever the flag says
canSendMessageAnytime == TRUE

\* ChatPanel.handleSubmit: if (input.trim() && !isProcessing), for an input
\* that is not blank
canSendMessage == ~isProcessing

\* handleRefine up to its await: the chat panel sends a request while nothing
\* is being processed
HandleRefine ==
    /\ currentView = "workspace"
    /\ canSendMessage
    /\ Len(chatMessages) < MaxChat
    /\ isProcessing' = TRUE
    /\ statusMsg' = StatusRefining
    /\ \E request \in Requests :
          chatMessages' = Append(chatMessages, [role |-> "user", content |-> request])
    /\ currentHtml' = generatedHtml
    /\ pc' = "refine"
    /\ EnterRetry(DefaultMaxRetries)
    /\ UNCHANGED <<stage, out, statusLog, cooled, parts, cooldowns, result>>
    /\ UNCHANGED <<currentView, generatedHtml, alerted, attachments, generations>>
    /\ UNCHANGED <<fileVars, downloadVars, formVars>>

\* handleRefine after its await, refineLessonPlan having returned
RefineReturn ==
    /\ pc = "refine"
    /\ rpc = "returned"
    /\ generatedHtml' = retval.value
    /\ chatMessages' = Append(chatMessages, AiUpdatedMessage)
    /\ isProcessing' = FALSE
    /\ currentHtml' = <<>>
    /\ ServiceReset
    /\ UNCHANGED <<statusMsg, currentView, alerted, attachments, generations>>
    /\ UNCHANGED <<fileVars, downloadVars, formVars>>

\* a catch block that drops the artifact
RefineCatchClearingArtifact ==
    /\ pc = "refine"
    /\ rpc = "thrown"
    /\ generatedHtml' = <<>>
    /\ chatMessages' = Append(chatMessages, IF isQuotaError(retval.reason)
                                            THEN AiLimitMessage ELSE AiErrorMessage)
    /\ isProcessing' = FALSE
    /\ currentHtml' = <<>>
    /\ ServiceReset
    /\ UNCHANGED <<statusMsg, currentView, alerted, attachments, generations>>
    /\ UNCHANGED <<fileVars, downloadVars, formVars>>

\* handleRefine after its await, refineLessonPlan having thrown
RefineCatch ==
    /\ pc = "refine"
    /\ rpc = "thrown"
    /\ chatMessages' = Append(chatMessages, IF isQuotaError(retval.reason)
                                            THEN AiLimitMessage ELSE AiErrorMessage)
    /\ isProcessing' = FALSE
    /\ currentHtml' = <<>>
    /\ ServiceReset
    /\ UNCHANGED <<statusMsg, currentView, generatedHtml, alerted, attachments,
                   generations>>
    /\ UNCHANGED <<fileVars, downloadVars, formVars>>

\* handleReset, confirmed: the chat panel's button is live during a refinement
HandleReset ==
    /\ currentView = "workspace"
    /\ generatedHtml' = <<>>
    /\ chatMessages' = <<>>
    /\ currentView' = "input"
    /\ UNCHANGED <<pipeVars, started, lastReply>>
    /\ UNCHANGED retryVars
    /\ UNCHANGED <<isProcessing, alerted, currentHtml, attachments, generations>>
    /\ UNCHANGED <<fileVars, downloadVars, formVars>>

NextSession ==
    \/ HandleGenerate
    \/ RetryStep
    \/ StageReturn
    \/ CooldownDone
    \/ FinalStageReturn
    \/ StageThrow
    \/ GenerateReturn
    \/ GenerateCatch
    \/ AlertDismissed
    \/ HandleRefine
    \/ RefineReturn
    \/ RefineCatch
    \/ HandleReset

SpecSession == Init /\ [][NextSession]_vars

----------------------------------------------------------------------------
(* refineLessonPlan on its own, over artifacts and responses with fences   *)

MaxRefineLen == 3

\* the current artifacts refineLessonPlan is called with
RefineArtifacts == { <<>>, <<"<html>">> }

RefinePieces == {FenceHtml, Fence, <<"x">>, <<"\n">>}
RefineResponses ==
    [hasText : {TRUE}, text : TextsOf(RefinePieces, MaxRefineLen)]
        \cup [hasText : {FALSE}, text : {<<"undefined">>}]

\* refineLessonPlan(currentHtml, userRequest) is called
InitRefine ==
    /\ pc = "refine"
    /\ currentHtml \in RefineArtifacts
    /\ stage = 0
    /\ out = <<>>
    /\ statusMsg = 0
    /\ statusLog = <<>>
    /\ cooled = 0
    /\ parts = <<>>
    /\ cooldowns = 0
    /\ started = {}
    /\ result = None
    /\ rpc = "loop"
    /\ i = 0
    /\ maxRetries = DefaultMaxRetries
    /\ lastError = UndefinedError
    /\ delay = 0
    /\ calls = 0
    /\ slept = 0
    /\ failures = 0
    /\ pending = {}
    /\ settled = None
    /\ retval = None
    /\ lastReply = None
    /\ currentView = "input"
    /\ generatedHtml = <<>>
    /\ isProcessing = FALSE
    /\ chatMessages = <<>>
    /\ alerted = "none"
    /\ attachments = <<>>
    /\ generations = 0
    /\ FilesInit
    /\ DownloadInit
    /\ FormInit

NextRefine ==
    \/ RetryInvoke
    \/ ServiceRespondWith(RefineResponses)
    \/ RetryReturn
    \/ RetryCatch
    \/ RetryWake
    \/ RetryExhausted

SpecRefine == InitRefine /\ [][NextRefine]_vars

----------------------------------------------------------------------------
(* The attachment collection: src/components/InputForm.tsx                 *)

MaxFiles == 2

\* the files the user can choose: a name (stem, extension) and a MIME type
\* (major part with its slash, minor part), names in lower case
SelectedFiles ==
    { [name |-> <<"clip", ".mp4">>, type |-> <<"video/", "mp4">>],
      [name |-> <<"handout", ".docx">>, type |-> <<>>],
      [name |-> <<"notes", ".txt">>, type |-> <<"text/", "plain">>],
      [name |-> <<"scan", ".pdf">>, type |-> <<"application/", "pdf">>] }

\* video.duration, in seconds: of the clips chosen among other files, and of
\* a video normalized on its own
ClipDurations == { 30 }
Durations == { 10, 20, 30, 60 }
\* what a text file or a document can hold, and a binary file in base64
FileTexts == { <<>>, <<"Hello">> }
FileData == { <<>>, <<"JVBERi0=">> }

startsWith(str, prefix) == Len(str) > 0 /\ str[1] = prefix
endsWith(str, suffix) == Len(str) > 0 /\ str[Len(str)] = suffix

isVideo(file) ==
    \/ startsWith(file.type, "video/")
    \/ endsWith(file.name, ".mp4") \/ endsWith(file.name, ".mov")
    \/ endsWith(file.name, ".webm")
isAudio(file) ==
    \/ startsWith(file.type, "audio/")
    \/ endsWith(file.name, ".mp3") \/ endsWith(file.name, ".wav")
    \/ endsWith(file.name, ".ogg") \/ endsWith(file.name, ".m4a")
isImage(file) == startsWith(file.type, "image/")

\* the branch of processFile a file takes
Branch(file) ==
    IF isVideo(file) THEN "video"
    ELSE IF endsWith(file.name, ".docx") THEN "docx"
    ELSE IF endsWith(file.name, ".txt") \/ file.type = <<"text/", "plain">> THEN "txt"
    ELSE "data"

\* a record that keeps the type the file declares, empty or not
newItemDeclaredType(id, file) ==
    [ id |-> id,
      name |-> file.name,
      type |-> file.type,
      status |-> "processing",
      progress |-> 0,
      isMedia |-> (isVideo(file) \/ isImage(file) \/ isAudio(file)),
      data |-> Unset,
      keyframes |-> Unset,
      text |-> Unset ]

\* processFile: newItem
newItem(id, file) ==
    [ id |-> id,
      name |-> file.name,
      type |-> IF file.type = <<>> THEN <<"application/", "octet-stream">> ELSE file.type,
      status |-> "processing",
      progress |-> 0,
      isMedia |-> (isVideo(file) \/ isImage(file) \/ isAudio(file)),
      data |-> Unset,
      keyframes |-> Unset,
      text |-> Unset ]

\* { ...f, ...updates }
Merge(f, updates) ==
    [field \in DOMAIN f |-> IF field \in DOMAIN updates THEN updates[field] ELSE f[field]]

\* an update that puts back a record the collection no longer holds
updateFileOrInsert(fs, id, updates) ==
    IF \E k \in DOMAIN fs : fs[k].id = id
    THEN [k \in DOMAIN fs |-> IF fs[k].id = id THEN Merge(fs[k], updates) ELSE fs[k]]
    ELSE Append(fs, [id |-> id])

\* an update that is merged into every record
updateFileEvery(fs, id, updates) ==
    [k \in DOMAIN fs |-> Merge(fs[k], updates)]

\* updateFile: prev.map(f => f.id === id ? { ...f, ...updates } : f)
updateFile(fs, id, updates) ==
    [k \in DOMAIN fs |-> IF fs[k].id = id THEN Merge(fs[k], updates) ELSE fs[k]]

\* a filter that drops the record and those before it
removeFileAndBefore(fs, id) ==
    LET at == {k \in DOMAIN fs : fs[k].id = id}
    IN IF at = {} THEN fs ELSE SubSeq(fs, (CHOOSE k \in at : TRUE) + 1, Len(fs))

\* removeFile: prev.filter(f => f.id !== id)
removeFile(fs, id) == SelectSeq(fs, LAMBDA f : f.id # id)

\* timestamps at the quarters
TimestampsAtQuarters(duration) ==
    << (duration * 25) \div 100, (duration * 50) \div 100, (duration * 75) \div 100 >>

\* extractKeyframes: [duration * 0.1, duration * 0.5, duration * 0.9]
Timestamps(duration) ==
    << (duration * 1) \div 10, (duration * 5) \div 10, (duration * 9) \div 10 >>

\* a normalization as processFile starts it: the interval's p, the phase of
\* the branch, and for a video its duration, the seeks issued and the frames
\* captured (a frame is named by the time it was captured at)
newNorm(file) ==
    [ file |-> file,
      phase |-> IF Branch(file) = "video" THEN "metadata" ELSE "reading",
      p |-> 0,
      duration |-> 0,
      seeks |-> <<>>,
      frames |-> <<>>,
      loaded |-> <<>> ]

\* an interval that is never cleared
SettledNever(n) == FALSE

\* the interval of a normalization is cleared when it completes or fails; p
\* is not read again, and is kept only where the record still shows it (a
\* record in error keeps the last progress written)
Settled(n) == n.phase \in {"done", "failed"}

\* processFile(selectedFile): the record is appended, the interval and the
\* read are started
ProcessFile ==
    /\ Len(norm) < MaxFiles
    /\ \E file \in SelectedFiles :
          /\ files' = Append(files, newItem(Len(norm) + 1, file))
          /\ norm' = Append(norm, newNorm(file))
    /\ UNCHANGED removed
    /\ UNCHANGED <<serviceVars, appVars, downloadVars, formVars>>

\* the interval fires: p += 15; if (p <= 90) updateFile({ progress: p })
Tick ==
    \E id \in DOMAIN norm :
        /\ ~Settled(norm[id])
        /\ norm[id].p <= 90
        /\ norm' = [norm EXCEPT ![id].p = @ + 15]
        /\ files' = IF norm[id].p + 15 <= 90
                    THEN updateFile(files, id, [progress |-> norm[id].p + 15])
                    ELSE files
        /\ UNCHANGED removed
        /\ UNCHANGED <<serviceVars, appVars, downloadVars, formVars>>

\* video.onloadedmetadata: the timestamps, and the first seek
VideoMetadataOf(durations) ==
    \E id \in DOMAIN norm, duration \in durations :
        /\ norm[id].phase = "metadata"
        /\ norm' = [norm EXCEPT ![id].phase = "seeking",
                                ![id].duration = duration,
                                ![id].seeks = <<Timestamps(duration)[1]>>]
        /\ UNCHANGED <<files, removed>>
        /\ UNCHANGED <<serviceVars, appVars, downloadVars, formVars>>

VideoMetadata == VideoMetadataOf(Durations)

\* onSeeked: the frame is captured; then the next seek, or after the last
\* one resolve(frames), clearInterval and the completing update
VideoSeeked ==
    \E id \in DOMAIN norm :
        /\ norm[id].phase = "seeking"
        /\ LET n == norm[id]
               frames == Append(n.frames, n.seeks[Len(n.seeks)])
               timestamps == Timestamps(n.duration)
           IN IF Len(frames) < Len(timestamps)
              THEN /\ norm' = [norm EXCEPT ![id].frames = frames,
                                           ![id].seeks = Append(@, timestamps[Len(frames) + 1])]
                   /\ files' = files
              ELSE /\ norm' = [norm EXCEPT ![id].frames = frames,
                                           ![id].phase = "done",
                                           ![id].p = 0]
                   /\ files' = updateFile(files, id,
                                  [keyframes |-> Set(frames), status |-> "completed",
                                   progress |-> 100])
        /\ UNCHANGED removed
        /\ UNCHANGED <<serviceVars, appVars, downloadVars, formVars>>

\* video.onerror: reject, and extractKeyframes is over with its duration and
\* frames; processFile's catch clears the interval
VideoError ==
    \E id \in DOMAIN norm :
        /\ norm[id].phase \in {"metadata", "seeking"}
        /\ norm' = [norm EXCEPT ![id].phase = "failed", ![id].duration = 0,
                                ![id].seeks = <<>>, ![id].frames = <<>>]
        /\ files' = updateFile(files, id, [status |-> "error"])
        /\ UNCHANGED removed
        /\ UNCHANGED <<serviceVars, appVars, downloadVars, formVars>>

\* reader.onload of a document: extractRawText is called if window.mammoth
\* is there, and nothing more happens if it is not
DocxLoaded ==
    \E id \in DOMAIN norm :
        /\ norm[id].phase = "reading"
        /\ Branch(norm[id].file) = "docx"
        /\ \E next \in {"extracting", "stalled"} :
              norm' = [norm EXCEPT ![id].phase = next]
        /\ UNCHANGED <<files, removed>>
        /\ UNCHANGED <<serviceVars, appVars, downloadVars, formVars>>

\* extractRawText resolves
DocxExtracted ==
    \E id \in DOMAIN norm, value \in FileTexts :
        /\ norm[id].phase = "extracting"
        /\ norm' = [norm EXCEPT ![id].phase = "done", ![id].p = 0,
                                ![id].loaded = value]
        /\ files' = updateFile(files, id,
                       [text |-> Set(value), status |-> "completed", progress |-> 100])
        /\ UNCHANGED removed
        /\ UNCHANGED <<serviceVars, appVars, downloadVars, formVars>>

\* extractRawText rejects
DocxFailed ==
    \E id \in DOMAIN norm :
        /\ norm[id].phase = "extracting"
        /\ norm' = [norm EXCEPT ![id].phase = "failed"]
        /\ files' = updateFile(files, id, [status |-> "error"])
        /\ UNCHANGED removed
        /\ UNCHANGED <<serviceVars, appVars, downloadVars, formVars>>

\* reader.onload of a text file
TxtLoaded ==
    \E id \in DOMAIN norm, value \in FileTexts :
        /\ norm[id].phase = "reading"
        /\ Branch(norm[id].file) = "txt"
        /\ norm' = [norm EXCEPT ![id].phase = "done", ![id].p = 0,
                                ![id].loaded = value]
        /\ files' = updateFile(files, id,
                       [text |-> Set(value), status |-> "completed", progress |-> 100])
        /\ UNCHANGED removed
        /\ UNCHANGED <<serviceVars, appVars, downloadVars, formVars>>

\* reader.onload of any other file: the data URL is never empty, its part
\* after the comma is the file in base64
DataLoaded ==
    \E id \in DOMAIN norm, value \in FileData :
        /\ norm[id].phase = "reading"
        /\ Branch(norm[id].file) = "data"
        /\ norm' = [norm EXCEPT ![id].phase = "done", ![id].p = 0,
                                ![id].loaded = value]
        /\ files' = updateFile(files, id,
                       [data |-> Set(value), status |-> "completed", progress |-> 100])
        /\ UNCHANGED removed
        /\ UNCHANGED <<serviceVars, appVars, downloadVars, formVars>>

\* the remove button of a listed file
RemoveFile ==
    \E k \in DOMAIN files :
        /\ files' = removeFile(files, files[k].id)
        /\ removed' = removed \cup {files[k].id}
        /\ UNCHANGED norm
        /\ UNCHANGED <<serviceVars, appVars, downloadVars, formVars>>

NextFiles ==
    \/ ProcessFile
    \/ Tick
    \/ VideoMetadataOf(ClipDurations)
    \/ VideoSeeked
    \/ VideoError
    \/ DocxLoaded
    \/ DocxExtracted
    \/ DocxFailed
    \/ TxtLoaded
    \/ DataLoaded

SpecFiles == Init /\ [][NextFiles]_vars

----------------------------------------------------------------------------
(* One video, normalized on its own                                        *)

\* processFile was called with a video
InitVideo ==
    /\ \E file \in {f \in SelectedFiles : isVideo(f)} :
          /\ files = <<newItem(1, file)>>
          /\ norm = <<newNorm(file)>>
    /\ removed = {}
    /\ pc = "idle"
    /\ stage = 0
    /\ out = <<>>
    /\ statusMsg = 0
    /\ statusLog = <<>>
    /\ cooled = 0
    /\ parts = <<>>
    /\ cooldowns = 0
    /\ started = {}
    /\ result = None
    /\ rpc = "idle"
    /\ i = 0
    /\ maxRetries = DefaultMaxRetries
    /\ lastError = UndefinedError
    /\ delay = 0
    /\ calls = 0
    /\ slept = 0
    /\ failures = 0
    /\ pending = {}
    /\ settled = None
    /\ retval = None
    /\ lastReply = None
    /\ AppInit
    /\ DownloadInit
    /\ FormInit

NextVideo ==
    \/ Tick
    \/ VideoMetadata
    \/ VideoSeeked
    \/ VideoError
    \/ RemoveFile

SpecVideo == InitVideo /\ [][NextVideo]_vars


----------------------------------------------------------------------------
(* removeFile over collections of listed files                             *)

MaxRemoveLen == 3

\* the record updateFile has made of a normalization on its own: the last
\* progress its interval wrote, then the update that settled it
RecordOf(id, n) ==
    LET ticked == Merge(newItem(id, n.file),
                        [progress |-> IF n.p <= 90 THEN n.p ELSE 90])
    IN IF n.phase = "failed" THEN Merge(ticked, [status |-> "error"])
       ELSE IF n.phase # "done" THEN ticked
       ELSE IF Branch(n.file) = "video"
            THEN Merge(ticked, [keyframes |-> Set(n.frames), status |-> "completed",
                                progress |-> 100])
       ELSE IF Branch(n.file) = "data"
            THEN Merge(ticked, [data |-> Set(n.loaded), status |-> "completed",
                                progress |-> 100])
       ELSE Merge(ticked, [text |-> Set(n.loaded), status |-> "completed",
                           progress |-> 100])

\* normalizations as processFile leaves them: settled ones of each branch,
\* a text file still being read, a video still loading and a stalled document
ListedNorms ==
    LET of(name) == newNorm(CHOOSE file \in SelectedFiles : endsWith(file.name, name))
    IN { [of(".mp4") EXCEPT !.phase = "done", !.duration = 30,
                            !.seeks = Timestamps(30), !.frames = Timestamps(30)],
         [of(".mp4") EXCEPT !.phase = "failed", !.p = 30],
         [of(".docx") EXCEPT !.phase = "stalled", !.p = 105],
         [of(".txt") EXCEPT !.phase = "done", !.loaded = <<"Hello">>],
         [of(".txt") EXCEPT !.p = 15],
         [of(".mp4") EXCEPT !.p = 105],
         [of(".pdf") EXCEPT !.phase = "done", !.loaded = <<"JVBERi0=">>] }

InitRemove ==
    /\ norm \in [1..MaxRemoveLen -> ListedNorms]
    /\ files = [k \in 1..MaxRemoveLen |-> RecordOf(k, norm[k])]
    /\ removed = {}
    /\ pc = "idle"
    /\ stage = 0
    /\ out = <<>>
    /\ statusMsg = 0
    /\ statusLog = <<>>
    /\ cooled = 0
    /\ parts = <<>>
    /\ cooldowns = 0
    /\ started = {}
    /\ result = None
    /\ rpc = "idle"
    /\ i = 0
    /\ maxRetries = DefaultMaxRetries
    /\ lastError = UndefinedError
    /\ delay = 0
    /\ calls = 0
    /\ slept = 0
    /\ failures = 0
    /\ pending = {}
    /\ settled = None
    /\ retval = None
    /\ lastReply = None
    /\ AppInit
    /\ DownloadInit
    /\ FormInit

\* files are removed while the text file still being read and the video
\* still loading go on, to a completion and to a failure
NextRemove ==
    \/ RemoveFile
    \/ Tick
    \/ TxtLoaded
    \/ VideoError

SpecRemove == InitRemove /\ [][NextRemove]_vars

----------------------------------------------------------------------------
(* The download: App.handleDownload                                        *)

MaxTitleLen == 5

\* the tags the pattern /<title>(.*?)<\/title>/i matches, as single tokens
TitleOpens == { "<title>", "<TITLE>" }
TitleCloses == { "</title>", "</TITLE>" }
\* what the dot of the pattern does not match
LineTerminators == { "LF" }
\* what trim() removes
WhiteSpace == { " ", "TAB", "LF" }
\* the class [<>:"/\\|?*]
UnsafeChars == { "<", ">", ":", "QUOTE", "/", "BACKSLASH", "|", "?", "*" }

\* the characters of a token
Expand(token) ==
    IF token = "<title>" THEN <<"<", "t", "i", "t", "l", "e", ">">>
    ELSE IF token = "<TITLE>" THEN <<"<", "T", "I", "T", "L", "E", ">">>
    ELSE IF token = "</title>" THEN <<"<", "/", "t", "i", "t", "l", "e", ">">>
    ELSE IF token = "</TITLE>" THEN <<"<", "/", "T", "I", "T", "L", "E", ">">>
    ELSE <<token>>

RECURSIVE ExpandAll(_)
ExpandAll(text) == IF Len(text) = 0 THEN <<>> ELSE Expand(Head(text)) \o ExpandAll(Tail(text))

\* the pattern matches from position k: an opening tag, then as little as
\* possible on the line up to a closing tag
TitleMatchAt(html, k) ==
    /\ html[k] \in TitleOpens
    /\ \E j \in (k + 1)..Len(html) :
          /\ html[j] \in TitleCloses
          /\ \A m \in (k + 1)..(j - 1) : html[m] \notin LineTerminators

\* generatedHtml.match(...): the first group of the leftmost match
titleMatch(html) ==
    LET starts == {k \in DOMAIN html : TitleMatchAt(html, k)}
    IN IF starts = {} THEN Unset
       ELSE LET k == CHOOSE x \in starts : \A y \in starts : x <= y
                closes == {j \in (k + 1)..Len(html) : html[j] \in TitleCloses}
                j == CHOOSE x \in closes : \A y \in closes : x <= y
            IN Set(ExpandAll(SubSeq(html, k + 1, j - 1)))

\* a replacement that takes the blanks too
replaceUnsafeAndBlanks(chars) ==
    [k \in DOMAIN chars |-> IF chars[k] \in UnsafeChars \cup {" "} THEN "-" ELSE chars[k]]

\* .replace(/[<>:"/\\|?*]/g, '-')
replaceUnsafe(chars) ==
    [k \in DOMAIN chars |-> IF chars[k] \in UnsafeChars THEN "-" ELSE chars[k]]

RECURSIVE trimStart(_)
trimStart(chars) ==
    IF Len(chars) > 0 /\ Head(chars) \in WhiteSpace THEN trimStart(Tail(chars)) ELSE chars

RECURSIVE trimEnd(_)
trimEnd(chars) ==
    IF Len(chars) > 0 /\ chars[Len(chars)] \in WhiteSpace
    THEN trimEnd(SubSeq(chars, 1, Len(chars) - 1))
    ELSE chars

trim(chars) == trimEnd(trimStart(chars))

\* String(n), n >= 0
RECURSIVE String(_)
String(n) ==
    LET digit == <<"0", "1", "2", "3", "4", "5", "6", "7", "8", "9">>[(n % 10) + 1]
    IN IF n < 10 THEN <<digit>> ELSE String(n \div 10) \o <<digit>>

RECURSIVE padStart(_, _, _)
padStart(chars, length, fill) ==
    IF Len(chars) >= length THEN chars ELSE padStart(<<fill>> \o chars, length, fill)

\* .slice(-2)
sliceLastTwo(chars) ==
    IF Len(chars) <= 2 THEN chars ELSE SubSeq(chars, Len(chars) - 1, Len(chars))

\* the name handleDownload gives the artifact at the given time
downloadName(html, date) ==
    LET matched == titleMatch(html)
        filenameBase == trim(replaceUnsafe(IF matched.set THEN matched.value
                                                        ELSE <<"Interactive_Lesson">>))
        month == padStart(String(date.month + 1), 2, "0")
        day == padStart(String(date.date), 2, "0")
        year == sliceLastTwo(String(date.year))
    IN filenameBase \o <<"-sway-">> \o month \o <<".">> \o day \o <<".">> \o year
          \o <<".html">>

\* the Export button: if (!generatedHtml) return; then the name is made
HandleDownload ==
    /\ currentView = "workspace"
    /\ Len(generatedHtml) > 0
    /\ fileName' = Set(downloadName(generatedHtml, now))
    /\ UNCHANGED <<now, serviceVars, appVars, fileVars, formVars>>

\* the artifacts in the workspace, and what new Date() can give:
\* getFullYear(), getMonth() from 0, getDate()
DownloadPieces ==
    { <<"<title>">>, <<"<TITLE>">>, <<"</title>">>, <<"A">>, <<":">>, <<" ">>, <<"LF">> }
Clock ==
    { [year |-> 2005, month |-> 11, date |-> 9],
      [year |-> 2026, month |-> 0, date |-> 31],
      [year |-> 2026, month |-> 10, date |-> 5] }

\* the workspace shows a generated artifact
InitDownload ==
    /\ currentView = "workspace"
    /\ generatedHtml \in TextsOf(DownloadPieces, MaxTitleLen)
    /\ chatMessages = <<UserDraftMessage, AiBuiltMessage>>
    /\ generations = 1
    /\ statusMsg = 6
    /\ statusLog = <<>>
    /\ cooled = 0
    /\ parts = <<>>
    /\ now \in Clock
    /\ fileName = Unset
    /\ isProcessing = FALSE
    /\ alerted = "none"
    /\ currentHtml = <<>>
    /\ attachments = <<>>
    /\ FilesInit
    /\ FormInit
    /\ pc = "idle"
    /\ stage = 0
    /\ out = <<>>
    /\ cooldowns = 0
    /\ started = {}
    /\ result = None
    /\ rpc = "idle"
    /\ i = 0
    /\ maxRetries = DefaultMaxRetries
    /\ lastError = UndefinedError
    /\ delay = 0
    /\ calls = 0
    /\ slept = 0
    /\ failures = 0
    /\ pending = {}
    /\ settled = None
    /\ retval = None
    /\ lastReply = None

NextDownload == HandleDownload

SpecDownload == InitDownload /\ [][NextDownload]_vars






(***************************************************************************)
(* Properties of withRetry                                                 *)
(***************************************************************************)
\* 5000 + 10000 + ... + 2^(k-1) * 5000, the sum of the first k backoffs
RECURSIVE BackoffTotal(_)
BackoffTotal(k) == IF k <= 0 THEN 0 ELSE BackoffTotal(k - 1) + (2 ^ (k - 1)) * 5000

\* p occurs in s when letter case is ignored
IncludesIgnoringCase(s, p) ==
    \E k \in 1..Len(s) :
        /\ k + Len(p) - 1 <= Len(s)
        /\ \A j \in 1..Len(p) : toLowerCase(<<s[k + j - 1]>>) = toLowerCase(<<p[j]>>)

CharsResourceExhaustedSpaced == <<"r", "e", "s", "o", "u", "r", "c", "e", " ",
                                  "e", "x", "h", "a", "u", "s", "t", "e", "d">>

\* the rate-limit signature: status 429, or a message holding 429 or
\* resource_exhausted in any letter case
RateLimitSignature(e) ==
    \/ e.status = 429
    \/ e.hasMessage /\ IncludesIgnoringCase(e.message, Chars429)
    \/ e.hasMessage /\ IncludesIgnoringCase(e.message, CharsResourceExhausted)

\* the signature with the words "resource exhausted" and without the 429 text
SpacedSignature(e) ==
    \/ e.status = 429
    \/ e.hasMessage /\ IncludesIgnoringCase(e.message, CharsResourceExhaustedSpaced)

\* C1: with maxRetries = 5, an operation that fails with a rate-limit error
\* on its first k invocations (k in 0..4) and then succeeds makes withRetry
\* return that value after exactly k + 1 invocations, having slept
\* 5000 + ... + 2^(k-1) * 5000 ms; withRetry never throws after a success
\* and never throws a rate-limit error while attempts remain.
C1_SucceedsAfterRateLimits ==
    maxRetries = DefaultMaxRetries =>
        /\ rpc = "returned" =>
              /\ failures \in 0..4
              /\ calls = failures + 1
              /\ settled.kind = "fulfilled"
              /\ retval = Fulfilled(settled.value)
              /\ slept = BackoffTotal(failures)
        /\ rpc = "thrown" =>
              /\ settled.kind = "rejected"
              /\ RateLimitSignature(settled.reason) => failures = DefaultMaxRetries

C1_Witness ==
    /\ maxRetries = DefaultMaxRetries
    /\ rpc = "returned"
    /\ failures = 4
    /\ calls = 5
    /\ slept = 75000

\* C2: once an invocation has failed with an error that is not a rate-limit
\* error, withRetry throws that very error: the operation is not invoked
\* again (the error is the one of the last invocation made, nothing is in
\* flight) and no backoff follows the failure.
C2_OtherErrorPropagates ==
    (settled.kind = "rejected" /\ ~RateLimitSignature(settled.reason) /\ rpc # "await") =>
        /\ rpc = "thrown"
        /\ retval = Rejected(settled.reason)
        /\ calls = settled.reason.at
        /\ pending = {}
        /\ delay = 0
        /\ slept = BackoffTotal(failures - 1)

C2_Witness ==
    /\ rpc = "thrown"
    /\ settled.kind = "rejected"
    /\ ~RateLimitSignature(settled.reason)
    /\ settled.reason.status = 500
    /\ failures = 3
    /\ calls = 3

\* C3: the operation is invoked at most maxRetries times; when every one of
\* the maxRetries invocations failed with a rate-limit error, withRetry
\* throws the error of the last invocation.
C3_ExhaustedThrowsLast ==
    /\ calls <= maxRetries
    /\ (rpc = "thrown" /\ maxRetries >= 1 /\ failures = maxRetries
          /\ settled.kind = "rejected" /\ RateLimitSignature(settled.reason)) =>
        /\ retval = Rejected(settled.reason)
        /\ retval.reason.at = maxRetries

C3_Witness ==
    /\ rpc = "thrown"
    /\ maxRetries = 3
    /\ failures = 3
    /\ calls = 3
    /\ RateLimitSignature(retval.reason)
    /\ retval.reason.at = 3

\* withRetry took the error in lastError for a rate limit
ClassifiedRateLimited == rpc = "sleep"
\* withRetry took the error in lastError for another failure
ClassifiedOther == rpc = "thrown" /\ failures >= 1 /\ i < maxRetries

\* C4 as stated: a failure is classified as rate-limited exactly when its
\* status is 429 or its message contains "resource exhausted" in any case.
C4_AsStated ==
    /\ ClassifiedRateLimited => SpacedSignature(lastError)
    /\ ClassifiedOther => ~SpacedSignature(lastError)

\* C4, amended: a failure is classified as rate-limited exactly when its
\* status is 429 or its message contains "429" or "resource_exhausted"
\* compared case-insensitively; every other failure is classified as other.
C4_Classification ==
    /\ ClassifiedRateLimited => RateLimitSignature(lastError)
    /\ ClassifiedOther => ~RateLimitSignature(lastError)

C4_Witness ==
    /\ ClassifiedRateLimited
    /\ lastError.status = 500
    /\ lastError.hasMessage
    /\ IncludesIgnoringCase(lastError.message, Chars429)


(***************************************************************************)
(* Properties of the pipeline                                              *)
(***************************************************************************)
\* C5: the stages run in the order 1, 2, 3, 4, 5: a request of stage n is
\* in flight only while stage n runs and only once every stage before n has
\* returned, a run that returns has run all five, and requests of two
\* stages are never in flight together.
C5_StagesInOrder ==
    /\ \A req \in pending : pc = "stage" /\ req.stage = stage
    /\ \A r1, r2 \in pending : r1.stage = r2.stage
    /\ pc = "stage" => DOMAIN out = 1..(stage - 1)
    /\ \A n \in started : \A m \in 1..(n - 1) : m \in started
    /\ \A n \in started : n <= stage
    /\ result.kind = "fulfilled" => started = 1..5 /\ DOMAIN out = 1..5

C5_Witness ==
    /\ pending = {[stage |-> 5, at |-> 2]}
    /\ DOMAIN out = 1..4

\* C6: when stage n fails (an error that is not retried, or retries
\* exhausted), no request of a later stage has gone out or can go out, the
\* assembly has not run, nothing is returned, and generateLessonPlan throws
\* the very error the failing stage raised.
C6_FailureAborts ==
    pc = "failed" =>
        /\ stage \in 1..5
        /\ result.kind = "rejected"
        /\ settled.kind = "rejected"
        /\ result.reason = settled.reason
        /\ result.reason.stage = stage
        /\ result.reason.at = calls
        /\ started = 1..stage
        /\ DOMAIN out = 1..(stage - 1)
        /\ pending = {}
        /\ statusMsg = stage
        /\ ~ENABLED RetryInvoke

C6_Witness ==
    /\ pc = "failed"
    /\ stage = 4
    /\ failures = DefaultMaxRetries
    /\ result.kind = "rejected"
    /\ result.reason.at = DefaultMaxRetries

(***************************************************************************)
(* Properties of the assembly                                              *)
(***************************************************************************)
\* the position of the last occurrence of p in s, 0 when there is none
LastIndexOf(s, p) ==
    LET hits == {k \in 1..(Len(s) + 1) : MatchesAt(s, p, k)}
    IN IF hits = {} THEN 0 ELSE CHOOSE k \in hits : \A m \in hits : k >= m

Returned == result.kind = "fulfilled"
cleanShell == StripHtmlFences(out[3])
cleanContent == StripHtmlFences(out[4])
cleanScript == StripScriptFences(out[5])

\* C7: no returned artifact contains the content marker.
C7_NoMarkerRemains ==
    Returned => ~Includes(result.value, ContentMarker)

\* C8: every returned artifact contains the cleaned script fragment (when
\* there is any) immediately before the closing body boundary of the document.
C8_ScriptBeforeBodyClose ==
    (Returned /\ Len(cleanScript) > 0) =>
        /\ Includes(result.value, BodyClose)
        /\ MatchesAt(result.value, cleanScript \o BodyClose,
                     LastIndexOf(result.value, BodyClose) - Len(cleanScript))

\* C9: when the shell contains the marker (taken here in its plainest case:
\* once, and with a content fragment that does not hold the marker), the
\* artifact is the shell with the cleaned content standing where the marker
\* stood: the text before it is unchanged, the text after it is unchanged
\* but for what the script insertion adds, and the marker is gone.
C9_ContentReplacesMarker ==
    (Returned /\ Occurrences(cleanShell, ContentMarker) = 1
              /\ ~Includes(cleanContent, ContentMarker)) =>
        LET k == IndexOf(cleanShell, ContentMarker)
            before == SubSeq(cleanShell, 1, k - 1)
            after == SubSeq(cleanShell, k + 1, Len(cleanShell))
            expected == before \o cleanContent \o after
            added == Len(result.value) - Len(expected)
        IN /\ added >= 0
           /\ \E j \in 0..Len(expected) :
                 /\ j <= Len(before) \/ j >= Len(before) + Len(cleanContent)
                 /\ SubSeq(result.value, 1, j) = SubSeq(expected, 1, j)
                 /\ SubSeq(result.value, j + added + 1, Len(result.value))
                      = SubSeq(expected, j + 1, Len(expected))
           /\ ~Includes(result.value, ContentMarker)

\* C10: when the shell does not contain the marker, the artifact contains
\* the cleaned content (when there is any) in the fallback container, before
\* the closing body boundary.
C10_FallbackKeepsContent ==
    (Returned /\ ~Includes(cleanShell, ContentMarker) /\ Len(cleanContent) > 0) =>
        LET wrapped == FallbackOpen \o cleanContent \o FallbackClose
        IN /\ Includes(result.value, wrapped)
           /\ IndexOf(result.value, wrapped) + Len(wrapped)
                <= LastIndexOf(result.value, BodyClose)

----------------------------------------------------------------------------
(* withRetry's sleeps (SpecRetry)                                          *)

\* C20 as stated: withRetry does not sleep after the failure of the last
\* permitted attempt (attempt index maxRetries - 1): whenever a backoff sleep
\* is under way, an attempt is left to make after it.
C20_NoSleepAfterLastAttempt ==
    rpc = "sleep" => i < maxRetries - 1

\* C20 amended: withRetry sleeps 2^i * 5000 ms after the rate-limited failure
\* of every attempt i, the last one included. After the sleep of an attempt
\* before the last the operation is invoked again; after the sleep of the
\* last attempt the loop is over and the last error is thrown with no further
\* invocation, so that a call that fails for rate limits throughout has made
\* maxRetries invocations and as many sleeps.
C20_SleepsAfterEveryRateLimit ==
    /\ rpc = "sleep" =>
          /\ i < maxRetries
          /\ calls = i + 1
          /\ delay = (2 ^ i) * 5000
          /\ slept = BackoffTotal(i)
    /\ (rpc = "loop" /\ i < maxRetries) =>
          /\ ENABLED RetryInvoke
          /\ ~ENABLED RetryExhausted
    /\ (rpc = "loop" /\ i >= maxRetries) =>
          /\ ENABLED RetryExhausted
          /\ ~ENABLED RetryInvoke
    /\ (rpc = "thrown" /\ maxRetries > 0 /\ RateLimitSignature(retval.reason)) =>
          /\ calls = maxRetries
          /\ slept = BackoffTotal(maxRetries)

\* the fifth attempt of five has failed for a rate limit and the 80 s sleep
\* is under way
C20_Witness ==
    /\ maxRetries = DefaultMaxRetries
    /\ rpc = "sleep"
    /\ i = 4
    /\ calls = 5
    /\ delay = 80000

----------------------------------------------------------------------------
(* the gateway's answer to a response without text (Spec)                  *)

\* the service answered the last request with a response that has no text
NoTextReply == lastReply.kind = "fulfilled" /\ ~lastReply.value.hasText

\* C18: when the service responds without text, callGemini resolves with the
\* empty string and not with a failure; the call made one service request
\* (one invocation per failure before it, and one for this answer, with
\* nothing left in flight); and the pipeline takes the empty string as the
\* stage's output and goes on: to the cooldown and the next stage after
\* stages 1 to 4, to the assembled artifact after stage 5, never to a throw.
C18_NoTextIsEmptyString ==
    NoTextReply =>
        /\ settled = Fulfilled(<<>>)
        /\ pending = {}
        /\ calls = failures + 1
        /\ rpc \in {"await", "returned", "idle"}
        /\ rpc = "await" => ENABLED RetryReturn /\ ~ENABLED RetryCatch
        /\ rpc = "returned" => retval = Fulfilled(<<>>)
        /\ pc \in {"stage", "cooldown", "returned"}
        /\ pc = "cooldown" =>
              /\ out[stage] = <<>>
              /\ ENABLED CooldownDone
        /\ pc = "returned" =>
              result = Fulfilled(Assembly(out[3], out[4], <<>>))

\* stage 2 got a response without text, its output is the empty string and
\* the request of stage 3 has gone out
C18_Witness ==
    /\ pc = "stage"
    /\ stage = 3
    /\ 3 \in started
    /\ out[2] = <<>>
    /\ out[1] # <<>>

----------------------------------------------------------------------------
(* the session's handling of failures (SpecSession)                        *)

\* C11: a failed refinement leaves the stored artifact untouched. From the
\* request to the failure, whatever the number of attempts made, the stored
\* artifact is the one the refinement was requested for, and the step that
\* handles the failure does not change it; only the user's own reset, which
\* leaves the workspace, empties it meanwhile.
C11_FailureLeavesArtifact ==
    /\ []((pc = "refine" /\ currentView = "workspace") => generatedHtml = currentHtml)
    /\ [][(pc = "refine" /\ rpc # "returned" /\ currentView' = currentView)
            => generatedHtml' = generatedHtml]_vars

\* a refinement has failed after five rate-limited attempts, the chat shows
\* the limit message and the artifact is still there
C11_Witness ==
    /\ pc = "idle"
    /\ currentView = "workspace"
    /\ Len(chatMessages) = 4
    /\ chatMessages[4] = AiLimitMessage
    /\ Len(generatedHtml) > 0

\* C17: the caller's classification of an error that escapes agrees with
\* withRetry's: handleGenerate alerts the rate-limit message, and handleRefine
\* appends the limit message to the chat, exactly when withRetry classifies
\* the error as a rate limit, and the generic message otherwise.
C17_CallerAgreesWithGovernor ==
    /\ [](pc = "alert" =>
            alerted = (IF isRateLimit(result.reason) THEN "rate limit" ELSE "failed"))
    /\ [][(pc = "refine" /\ rpc = "thrown"
              /\ Len(chatMessages') = Len(chatMessages) + 1)
            => chatMessages'[Len(chatMessages')] =
                  (IF isRateLimit(retval.reason) THEN AiLimitMessage ELSE AiErrorMessage)]_vars

----------------------------------------------------------------------------
(* refineLessonPlan's result (SpecRefine)                                  *)

\* C12: whenever the model call of refineLessonPlan succeeds, for every
\* current artifact, the empty one included, and every response, those
\* without text or with fence delimiters only included, the string that
\* refineLessonPlan returns is not empty.
C12_RefineReturnsNonEmpty ==
    (pc = "refine" /\ rpc = "returned") => Len(retval.value) > 0

----------------------------------------------------------------------------
(* the attachment collection (SpecFiles, SpecRemove, SpecVideo)            *)

\* a payload field holds something: it is set, and not to an empty value
populated(field) == field.set /\ Len(field.value) > 0

PayloadsOf(f) == {x \in {"text", "data", "keyframes"} : populated(f[x])}

\* C13: in every state of the collection, a completed attachment has exactly
\* one of text, data and keyframes populated, and an attachment in error has
\* none of them populated.
C13_ExactlyOnePayload ==
    \A k \in DOMAIN files :
        /\ files[k].status = "completed" => Cardinality(PayloadsOf(files[k])) = 1
        /\ files[k].status = "error" => PayloadsOf(files[k]) = {}

\* the identifiers whose record differs between a state and the next
ChangedIds ==
    {id \in DOMAIN norm :
        \E j \in DOMAIN files, k \in DOMAIN files' :
            files[j].id = id /\ files'[k].id = id /\ files'[k] # files[j]}

\* C14: files normalizing at once do not touch each other. Under every
\* interleaving of ticks, completions and failures, every listed record is
\* the record its own normalization makes when it runs alone (so that one in
\* error turns no other into error and keeps none from completing), and a
\* step changes no record but that of the one normalization that moved.
C14_AttachmentsIndependent ==
    /\ [](\A k \in DOMAIN files : files[k] = RecordOf(files[k].id, norm[files[k].id]))
    /\ [][\A id \in ChangedIds :
            /\ norm'[id] # norm[id]
            /\ \A other \in DOMAIN norm \ {id} : norm'[other] = norm[other]]_vars

\* the first file failed after three ticks, the second completed meanwhile
C14_Witness ==
    /\ Len(files) = 2
    /\ files[1].status = "error"
    /\ files[1].progress = 45
    /\ files[2].status = "completed"
    /\ files[2].progress = 100
    /\ files[2].text = Set(<<"Hello">>)

\* C15: removeFile(id) removes the attachment with that identifier and no
\* other. The identifiers listed are those added and never removed, in the
\* order they were added in, and every record left is what its own
\* normalization made it: status, progress and payload are untouched.
C15_RemovesExactlyThat ==
    /\ {files[k].id : k \in DOMAIN files} = DOMAIN norm \ removed
    /\ \A j, k \in DOMAIN files : j < k => files[j].id < files[k].id
    /\ \A k \in DOMAIN files : files[k] = RecordOf(files[k].id, norm[files[k].id])

\* the second of three, a text file, was removed while it was read, and its
\* read has ended since: a completed video and a file still being read are
\* left, in their order
C15_Witness ==
    /\ removed = {2}
    /\ norm[2].phase = "done"
    /\ Len(files) = 2
    /\ files[1].id = 1
    /\ files[1].keyframes = Set(<<3, 15, 27>>)
    /\ files[2].id = 3
    /\ files[2].status = "processing"
    /\ files[2].progress = 30

\* C16: a video of duration D that decodes without failure is completed with
\* exactly 3 keyframes, captured at 10%, 50% and 90% of D in that order (3 s,
\* 15 s and 27 s when D is 30 s); the seeks are sequential: each is issued
\* once the frame of the one before is captured.
C16_ThreeKeyframes ==
    \A id \in DOMAIN norm :
        LET n == norm[id] IN
        Branch(n.file) = "video" =>
            /\ Len(n.seeks) <= 3
            /\ \A j \in DOMAIN n.seeks : n.seeks[j] * 10 = n.duration * <<1, 5, 9>>[j]
            /\ n.frames = SubSeq(n.seeks, 1, Len(n.frames))
            /\ n.phase = "seeking" =>
                  /\ Len(n.seeks) = Len(n.frames) + 1
                  /\ ENABLED VideoSeeked
            /\ n.phase = "done" =>
                  /\ Len(n.frames) = 3
                  /\ n.duration = 30 => n.frames = <<3, 15, 27>>
                  /\ \A k \in DOMAIN files : files[k].id = id =>
                        /\ files[k].status = "completed"
                        /\ files[k].keyframes = Set(n.frames)
                        /\ ~files[k].text.set /\ ~files[k].data.set

\* a video of 30 s is completed with the frames of 3 s, 15 s and 27 s
C16_Witness ==
    \E k \in DOMAIN files :
        /\ files[k].status = "completed"
        /\ files[k].keyframes = Set(<<3, 15, 27>>)
        /\ norm[files[k].id].duration = 30

----------------------------------------------------------------------------
(* the download name (SpecDownload)                                        *)

\* the artifact has a title element: the first opening tag that a closing
\* tag follows, and the text up to the nearest closing tag
HasTitle == \E k \in DOMAIN generatedHtml :
    /\ generatedHtml[k] \in TitleOpens
    /\ \E j \in (k + 1)..Len(generatedHtml) : generatedHtml[j] \in TitleCloses

TitleText ==
    LET opens == {k \in DOMAIN generatedHtml :
                    /\ generatedHtml[k] \in TitleOpens
                    /\ \E j \in (k + 1)..Len(generatedHtml) : generatedHtml[j] \in TitleCloses}
        k == CHOOSE x \in opens : \A y \in opens : x <= y
        j == CHOOSE x \in (k + 1)..Len(generatedHtml) :
                /\ generatedHtml[x] \in TitleCloses
                /\ \A y \in (k + 1)..(x - 1) : generatedHtml[y] \notin TitleCloses
    IN ExpandAll(SubSeq(generatedHtml, k + 1, j - 1))

\* T with each unsafe character replaced by a hyphen and nothing else altered
IsReplaced(base, T) ==
    /\ Len(base) = Len(T)
    /\ \A k \in DOMAIN T : base[k] = IF T[k] \in UnsafeChars THEN "-" ELSE T[k]

\* "-sway-", the date as MM.DD.YY and ".html"
TwoDigits(n) == LET digits == <<"0", "1", "2", "3", "4", "5", "6", "7", "8", "9">>
                IN <<digits[((n \div 10) % 10) + 1], digits[(n % 10) + 1]>>
NameTail ==
    <<"-sway-">> \o TwoDigits(now.month + 1) \o <<".">> \o TwoDigits(now.date) \o <<".">>
        \o TwoDigits(now.year) \o <<".html">>

\* the name that was given, without its tail
NameBase == SubSeq(fileName.value, 1, Len(fileName.value) - Len(NameTail))

EndsWithNameTail ==
    /\ Len(fileName.value) >= Len(NameTail)
    /\ SubSeq(fileName.value, Len(fileName.value) - Len(NameTail) + 1, Len(fileName.value))
          = NameTail

\* C19 as stated: for an artifact whose title element holds the text T, the
\* download name is T with each unsafe character replaced by a hyphen and no
\* other character altered, followed by "-sway-", the date as MM.DD.YY and
\* ".html".
C19_NameIsTitleReplaced ==
    (fileName.set /\ HasTitle) =>
        /\ EndsWithNameTail
        /\ IsReplaced(NameBase, TitleText)

\* C19 amended: for an artifact whose title element holds, on one line, the
\* text T, the download name is T with each unsafe character replaced by a
\* hyphen, then without its leading and trailing white space and with no
\* other character altered, followed by "-sway-", the date as MM.DD.YY and
\* ".html".
C19_NameIsTitleReplacedAndTrimmed ==
    (fileName.set /\ HasTitle /\ \A k \in DOMAIN TitleText : TitleText[k] \notin LineTerminators) =>
        /\ EndsWithNameTail
        /\ \E a \in 1..(Len(TitleText) + 1), b \in 0..Len(TitleText) :
              /\ IsReplaced(NameBase, SubSeq(TitleText, a, b))
              /\ \A k \in 1..(a - 1) : TitleText[k] \in WhiteSpace
              /\ \A k \in (b + 1)..Len(TitleText) : TitleText[k] \in WhiteSpace
              /\ a <= b => (TitleText[a] \notin WhiteSpace /\ TitleText[b] \notin WhiteSpace)

\* an artifact titled "A: " was downloaded on 9 December 2005
C19_Witness ==
    /\ generatedHtml = <<"<title>", "A", ":", " ", "</title>">>
    /\ fileName = Set(<<"A", "-", "-sway-", "1", "2", ".", "0", "9", ".", "0", "5", ".html">>)


(***************************************************************************)
(* Properties of the pipeline's retries, pacing and statuses               *)
(***************************************************************************)
\* the stage's retry loop is as withRetry(fn) starts it
FreshBudget ==
    /\ i = 0
    /\ calls = 0
    /\ failures = 0
    /\ slept = 0
    /\ maxRetries = DefaultMaxRetries

\* while a stage runs, its requests are its own and its budget is five
StageOwnsItsRetries ==
    pc = "stage" =>
        /\ maxRetries = DefaultMaxRetries
        /\ calls <= DefaultMaxRetries
        /\ \A req \in pending : req.stage = stage /\ req.at = calls
        /\ started \subseteq 1..stage
        /\ DOMAIN out = 1..(stage - 1)
        /\ (rpc = "loop" /\ i < DefaultMaxRetries) => ENABLED RetryInvoke

\* a step inside a stage keeps the stage, the outputs and the stage's input,
\* and a step into a stage starts a fresh budget and keeps the outputs
RetryStaysInStage ==
    /\ (pc = "stage" /\ pc' = "stage") =>
          /\ stage' = stage
          /\ out' = out
          /\ StageInput(stage)' = StageInput(stage)
          /\ started' \subseteq started \cup {stage}
    /\ (pc = "cooldown" /\ pc' = "stage") =>
          /\ stage' = stage + 1
          /\ out' = out
          /\ FreshBudget'

\* C21: each stage is retried on its own: a retry re-invokes the model call
\* of the running stage only, with the input of its first attempt, the
\* outputs of the stages before it are kept, and every stage starts with a
\* budget of five attempts whatever the stages before it used.
C21_StagesRetriedAlone == [](StageOwnsItsRetries) /\ [][RetryStaysInStage]_vars

C21_Witness ==
    /\ pc = "stage"
    /\ stage = 5
    /\ calls = 5
    /\ failures = 4
    /\ pending = {[stage |-> 5, at |-> 5]}

\* the cooldowns taken so far are one of 1500 ms per stage that has returned
\* and was followed by another
CooldownsTaken ==
    /\ pc \in {"stage", "cooldown", "failed"} =>
          cooldowns = stage - 1
    /\ pc = "returned" => cooldowns = 4
    /\ cooled = cooldowns * 1500

\* a cooldown is taken after a stage before the last has returned and before
\* the next stage's first model call
CooldownStep ==
    (cooldowns' # cooldowns \/ cooled' # cooled) =>
        /\ pc = "cooldown"
        /\ stage \in 1..4
        /\ stage \in DOMAIN out
        /\ cooldowns' = cooldowns + 1
        /\ cooled' = cooled + 1500
        /\ stage' = stage + 1
        /\ calls' = 0
        /\ (stage + 1) \notin started'

\* C22: one cooldown of 1500 ms is taken after each of stages 1 to 4 has
\* returned and before the next stage's first model call, none after stage
\* 5, whatever retries and backoff sleeps the stages needed.
C22_OneCooldownPerStage == [](CooldownsTaken) /\ [][CooldownStep]_vars

C22_Witness ==
    /\ pc = "returned"
    /\ cooled = 6000
    /\ failures = 2
    /\ slept = 15000

\* the statuses of stages in the log
StageStatuses == SelectSeq(statusLog, LAMBDA msg : msg \in 1..5)

\* the log holds one status per stage begun, in stage order
StatusesSoFar ==
    pc \in {"stage", "cooldown", "failed", "returned"} =>
        StageStatuses = [n \in 1..stage |-> n]

\* a status of a stage is emitted as the stage begins: before its first
\* model call and after the stage before it has returned
StatusStep ==
    (statusLog' # statusLog /\ pc' = "stage") =>
        /\ statusLog' = Append(statusLog, stage')
        /\ calls' = 0
        /\ stage' \notin started'
        /\ DOMAIN out' = 1..(stage' - 1)

\* C23: every stage that begins has its status emitted once, before its
\* first model call and after the stage before it has returned, in stage
\* order; retries emit none, and none is emitted after a stage has failed.
C23_OneStatusPerStage == [](StatusesSoFar) /\ [][StatusStep]_vars

C23_Witness ==
    /\ pc = "failed"
    /\ stage = 3
    /\ failures = 5
    /\ statusLog = <<1, 2, 3>>


(***************************************************************************)
(* Properties of the fence stripping                                       *)
(***************************************************************************)
\* the language tags of the fences the stage outputs are drawn from
LanguageTags == {<<"html">>, <<"javascript">>}

\* C24: the artifact generateLessonPlan returns holds no code-fence
\* delimiter and no language tag left over from a fence, whichever of the
\* shell, content and script outputs the fence stood in.
C24_NoFenceNoTag ==
    result.kind = "fulfilled" =>
        /\ ~Includes(result.value, Fence)
        /\ \A tag \in LanguageTags : ~Includes(result.value, tag)

\* refineLessonPlan has returned on a reply that carried text
RefinedFromText ==
    /\ pc = "refine"
    /\ rpc = "returned"
    /\ lastReply.kind = "fulfilled"
    /\ lastReply.value.hasText

\* C25: when refineLessonPlan succeeds with model text T, what it returns,
\* which handleRefine stores as the artifact, holds no code-fence delimiter,
\* wherever in T the fences stood.
C25_RefinedHasNoFence ==
    RefinedFromText => ~Includes(retval.value, Fence)


(***************************************************************************)
(* Properties of the attachments' terminal states                          *)
(***************************************************************************)
Terminal(f) == f.status \in {"completed", "error"}

\* a step leaves every record that is completed or in error as it is, as
\* long as the record is in the collection
TerminalRecordsKept ==
    \A j \in DOMAIN files :
        Terminal(files[j]) =>
            \A k \in DOMAIN files' :
                files'[k].id = files[j].id => files'[k] = files[j]

\* C26: once an attachment is completed or in error, no field of its record
\* changes again, whatever ticks and callbacks of this and of other
\* attachments follow, until the attachment is removed.
C26_TerminalIsFinal == [][TerminalRecordsKept]_vars

C26_Witness ==
    /\ Len(files) = 2
    /\ files[1].status = "error"
    /\ files[1].progress = 30
    /\ files[2].status = "processing"
    /\ files[2].progress = 45

\* a callback of the normalization is still to come: the video's metadata,
\* seek or error event, the reader's load event, the converter's settlement
Awaited(n) == n.phase \in {"metadata", "seeking", "reading", "extracting"}

\* C27: every file handed to processFile ends completed or in error: no
\* attachment is left in processing once the step it waited for has had its
\* outcome, an unavailable converter included.
C27_NoneLeftProcessing ==
    \A j \in DOMAIN files :
        files[j].status = "processing" => Awaited(norm[files[j].id])


----------------------------------------------------------------------------
(* The input form's submit: src/components/InputForm.tsx, handleSubmit and  *)
(* isSubmitDisabled, up to the first request of the pipeline                *)

MaxSubmitFiles == 2

Modes == { "text", "url", "file" }
\* what the user can have typed
TypedTexts == { <<>>, <<" ">>, <<"Teach", " ", "colors">> }
TypedUrls == { <<>>, <<"https://example.org/a">> }

\* the files of the form: those of the normalization, a binary file that
\* declares no type and an audio file
SubmittedFiles ==
    SelectedFiles \cup
    { [name |-> <<"model", ".bin">>, type |-> <<>>],
      [name |-> <<"song", ".mp3">>, type |-> <<"audio/", "mpeg">>] }

\* normalizations as processFile leaves them, for the form's files
SubmittedNorms ==
    LET of(name) == newNorm(CHOOSE file \in SubmittedFiles : endsWith(file.name, name))
    IN { [of(".mp4") EXCEPT !.phase = "done", !.duration = 30,
                            !.seeks = Timestamps(30), !.frames = Timestamps(30)],
         [of(".mp4") EXCEPT !.phase = "failed", !.p = 30],
         [of(".docx") EXCEPT !.phase = "done", !.loaded = <<"Hello">>],
         [of(".txt") EXCEPT !.phase = "done"],
         [of(".txt") EXCEPT !.p = 15],
         [of(".pdf") EXCEPT !.phase = "done", !.loaded = <<"JVBERi0=">>],
         [of(".bin") EXCEPT !.phase = "done", !.loaded = <<"AAEC">>],
         [of(".mp3") EXCEPT !.phase = "done", !.loaded = <<"SUQz">>] }

\* a string field that is there and not empty
truthy(field) == field.set /\ field.value # <<>>

\* the attachments handleSubmit takes from one file
AttachmentsOf(file) ==
    IF file.status # "completed" \/ truthy(file.text) THEN <<>>
    ELSE IF file.keyframes.set
         THEN [k \in 1..Len(file.keyframes.value) |->
                  [mimeType |-> <<"image/", "jpeg">>, data |-> file.keyframes.value[k]]]
    ELSE IF truthy(file.data)
         THEN << [mimeType |-> file.type, data |-> file.data.value] >>
    ELSE <<>>

\* the blocks of text handleSubmit takes from one file
FileTextsOf(file) ==
    IF file.status # "completed" THEN <<>>
    ELSE IF truthy(file.text)
         THEN << <<"--- CONTENT FROM ">> \o file.name \o <<" ---", "LF">> \o file.text.value >>
    ELSE IF file.keyframes.set
         THEN << <<"--- VIDEO CONTEXT: ">> \o file.name \o <<" (analyzing ">>
                 \o String(Len(file.keyframes.value)) \o <<" keyframes) ---">> >>
    ELSE IF truthy(file.data) /\ startsWith(file.type, "audio/")
         THEN << <<"--- AUDIO CONTEXT: ">> \o file.name
                 \o <<" (analyzing audio for transcription and lesson content) ---">> >>
    ELSE <<>>

\* fileTexts.join('\n\n')
RECURSIVE JoinBlocks(_)
JoinBlocks(blocks) ==
    IF Len(blocks) = 0 THEN <<>>
    ELSE IF Len(blocks) = 1 THEN blocks[1]
    ELSE blocks[1] \o <<"LF", "LF">> \o JoinBlocks(Tail(blocks))

\* handleSubmit's attachments and finalPrompt
SubmitAttachments ==
    IF mode = "file" THEN Join([k \in 1..Len(files) |-> AttachmentsOf(files[k])]) ELSE <<>>

SubmitPrompt ==
    LET typed == trim(textInput)
        fileTexts == Join([k \in 1..Len(files) |-> FileTextsOf(files[k])])
    IN IF mode = "url"
       THEN <<"Analyze this link: ">> \o url \o <<"LF", "LF", "User Instructions: ">>
            \o (IF typed # <<>> THEN typed
                ELSE <<"Transform this into a full ESL lesson.">>)
       ELSE IF mode = "file"
       THEN IF Len(fileTexts) > 0
            THEN (IF typed # <<>> THEN typed
                  ELSE <<"Analyze the following content to create an ESL lesson plan.">>)
                 \o <<"LF", "LF">> \o JoinBlocks(fileTexts)
            ELSE IF typed = <<>>
            THEN <<"Analyze the attached media to create a full ESL lesson plan.">>
            ELSE typed
       ELSE typed

\* a button that does not look at the files
isSubmitDisabledIgnoringFiles ==
    \/ isProcessing
    \/ mode = "text" /\ trim(textInput) = <<>>
    \/ mode = "url" /\ trim(url) = <<>>

\* the submit button is disabled
isSubmitDisabled ==
    \/ isProcessing
    \/ mode = "text" /\ trim(textInput) = <<>>
    \/ mode = "url" /\ trim(url) = <<>>
    \/ mode = "file" /\ (Len(files) = 0
                         \/ \E k \in DOMAIN files : files[k].status = "processing")

\* handleSubmit: the form is submitted, and onGenerate is called unless
\* there is nothing to send
HandleSubmit ==
    /\ currentView = "input"
    /\ ~isSubmitDisabled
    /\ generations < MaxGenerations
    /\ ~(mode = "url" /\ trim(url) = <<>>)
    /\ ~(mode = "file" /\ Len(files) = 0)
    /\ SubmitPrompt # <<>> \/ Len(SubmitAttachments) > 0
    /\ onGenerate(SubmitPrompt, SubmitAttachments)
    /\ UNCHANGED <<fileVars, downloadVars, formVars>>

\* the form holds files that processFile has normalized, or is still
\* normalizing, and what the user typed
InitSubmit ==
    /\ \E n \in 0..MaxSubmitFiles :
          /\ norm \in [1..n -> SubmittedNorms]
          /\ files = [k \in 1..n |-> RecordOf(k, norm[k])]
    /\ removed = {}
    /\ mode \in Modes
    /\ textInput \in TypedTexts
    /\ url \in TypedUrls
    /\ pc = "idle"
    /\ stage = 0
    /\ out = <<>>
    /\ statusMsg = 0
    /\ statusLog = <<>>
    /\ cooled = 0
    /\ parts = <<>>
    /\ cooldowns = 0
    /\ started = {}
    /\ result = None
    /\ rpc = "idle"
    /\ i = 0
    /\ maxRetries = DefaultMaxRetries
    /\ lastError = UndefinedError
    /\ delay = 0
    /\ calls = 0
    /\ slept = 0
    /\ failures = 0
    /\ pending = {}
    /\ settled = None
    /\ retval = None
    /\ lastReply = None
    /\ AppInit
    /\ DownloadInit

NextSubmit ==
    \/ HandleSubmit
    \/ RetryInvoke

SpecSubmit == InitSubmit /\ [][NextSubmit]_vars

(***************************************************************************)
(* Properties of the generation request payload                            *)
(***************************************************************************)
\* the request of stage 1 is out: its payload is parts
Stage1Sent == pc = "stage" /\ stage = 1 /\ \E req \in pending : req.stage = 1

OctetStream == <<"application/", "octet-stream">>
ImageJpeg == <<"image/", "jpeg">>

\* the binary parts are the attachments given, in their order, after the
\* text part
PartsFollowAttachments ==
    /\ Len(parts) = 1 + Len(attachments)
    /\ DOMAIN parts[1] = {"text"}
    /\ parts[1].text = SubmitPrompt
    /\ \A k \in 1..Len(attachments) :
          /\ DOMAIN parts[k + 1] = {"inlineData"}
          /\ parts[k + 1].inlineData.mimeType = attachments[k].mimeType
          /\ parts[k + 1].inlineData.data = attachments[k].data

\* every binary part has a media type; a file that declared none travels as
\* application/octet-stream and a keyframe as image/jpeg
PartsAreTyped ==
    /\ \A k \in 2..Len(parts) : parts[k].inlineData.mimeType # <<>>
    /\ \A j \in DOMAIN files :
          (files[j].status = "completed" /\ ~truthy(files[j].text)) =>
              /\ files[j].keyframes.set =>
                    \A f \in DOMAIN files[j].keyframes.value :
                        \E k \in 2..Len(parts) :
                            /\ parts[k].inlineData.mimeType = ImageJpeg
                            /\ parts[k].inlineData.data = files[j].keyframes.value[f]
              /\ (truthy(files[j].data) /\ norm[j].file.type = <<>>) =>
                    \E k \in 2..Len(parts) :
                        /\ parts[k].inlineData.mimeType = OctetStream
                        /\ parts[k].inlineData.data = files[j].data.value

\* C28: every payload generateLessonPlan sends to stage 1 has at least one
\* part, the user-text part first and the attachment parts after it in the
\* order given, and every binary part carries a non-empty media type:
\* application/octet-stream for a file that declared none, image/jpeg for a
\* keyframe.
C28_PayloadWellFormed ==
    Stage1Sent =>
        /\ Len(parts) >= 1
        /\ PartsFollowAttachments
        /\ mode = "file" => PartsAreTyped

C28_Witness ==
    /\ Stage1Sent
    /\ Len(files) = 2
    /\ norm[1].file.type = <<>>
    /\ Len(parts) = 5
    /\ parts[2].inlineData.mimeType = OctetStream
    /\ parts[5].inlineData.mimeType = ImageJpeg


(***************************************************************************)
(* Properties of the session's reset and of its processing flag            *)
(***************************************************************************)
\* C29: whenever the view is 'input', the stored artifact is the empty
\* string and the conversation log is empty, also after a refinement that
\* was in flight at the reset has completed.
C29_InputViewIsBlank ==
    currentView = "input" => (generatedHtml = <<>> /\ chatMessages = <<>>)

\* a call of generateLessonPlan or refineLessonPlan is under way
InFlight == pc # "idle"

\* handleGenerate or handleRefine starts a call in this step
StartsCall ==
    \/ generations' = generations + 1
    \/ /\ Len(chatMessages') = Len(chatMessages) + 1
       /\ chatMessages'[Len(chatMessages')].role = "user"

\* the call under way has had its outcome, and its handler can take it up
OutcomeTakenUp ==
    /\ pc = "returned" => ENABLED GenerateReturn
    /\ pc = "failed" => ENABLED GenerateCatch
    /\ pc = "alert" => ENABLED AlertDismissed
    /\ (pc = "refine" /\ rpc = "returned") => ENABLED RefineReturn
    /\ (pc = "refine" /\ rpc = "thrown") => ENABLED RefineCatch

\* the flag is true exactly while a call is under way, with one request out
\* at most
FlagFollowsCall ==
    /\ isProcessing <=> InFlight
    /\ Cardinality(pending) <= 1
    /\ OutcomeTakenUp

\* a call starts only with the flag false and sets it; the flag falls only
\* as a handler takes up the outcome of its call
FlagStep ==
    /\ StartsCall => (~isProcessing /\ ~InFlight /\ isProcessing' /\ InFlight')
    /\ (isProcessing /\ ~isProcessing') =>
          /\ \/ pc \in {"returned", "alert"}
             \/ pc = "refine" /\ rpc \in {"returned", "thrown"}
          /\ ~InFlight'

\* C30: at most one generateLessonPlan or refineLessonPlan call is in flight
\* at any time: a call starts only while the processing flag is false, the
\* flag is true from the start of the call until it has succeeded or failed,
\* and it is false again after every outcome.
C30_SingleFlight == [](FlagFollowsCall) /\ [][FlagStep]_vars

C30_Witness ==
    /\ currentView = "input"
    /\ isProcessing
    /\ pc = "refine"
    /\ rpc = "thrown"
    /\ generations = 1


(***************************************************************************)
(* Properties of a failed generation                                       *)
(***************************************************************************)
\* generateLessonPlan is under way or has thrown, and handleGenerate has not
\* finished
GenerationUnfinished == pc \in {"stage", "cooldown", "failed", "alert"}

\* a step of a generation that has not returned keeps the view, the artifact
\* and the log; the view turns to 'workspace' only in the step that takes up
\* a returned artifact, and stores it
FailedGenerationStep ==
    /\ GenerationUnfinished =>
          /\ currentView' = currentView
          /\ generatedHtml' = generatedHtml
          /\ chatMessages' = chatMessages
    /\ (currentView # "workspace" /\ currentView' = "workspace") =>
          /\ pc = "returned"
          /\ result.kind = "fulfilled"
          /\ generatedHtml' = result.value

\* C31: a generation that fails, at whatever stage, leaves the view 'input'
\* and the stored artifact and the conversation log as they were; the view
\* becomes 'workspace' only after a generation has returned, and the stored
\* artifact is then the one it returned.
C31_FailedGenerationChangesNothing ==
    /\ [](GenerationUnfinished => currentView = "input")
    /\ [][FailedGenerationStep]_vars

C31_Witness ==
    /\ pc = "alert"
    /\ stage = 3
    /\ failures = 5
    /\ currentView = "input"
    /\ isProcessing


(***************************************************************************)
(* Properties of the submission in file mode                               *)
(***************************************************************************)
\* a generation started from the file mode is under way
FileGeneration == pc # "idle" /\ mode = "file"

\* what a record has to give: the keyframes of a completed video, one part
\* each, or the data of a completed binary file; nothing unless completed
Contribution(file) ==
    IF file.status # "completed" THEN <<>>
    ELSE IF file.keyframes.set
         THEN [f \in DOMAIN file.keyframes.value |->
                  [mimeType |-> <<"image/", "jpeg">>, data |-> file.keyframes.value[f]]]
    ELSE IF truthy(file.data) THEN << [mimeType |-> file.type, data |-> file.data.value] >>
    ELSE <<>>

\* the headers under which handleSubmit quotes a file in the prompt
ContextHeaders == { "--- CONTENT FROM ", "--- VIDEO CONTEXT: ", "--- AUDIO CONTEXT: " }

\* the files quoted in the text part
Quoted == { k \in DOMAIN parts[1].text : parts[1].text[k] \in ContextHeaders }

\* the completed files that have text, keyframes or audio to be quoted for
Quotable ==
    { j \in DOMAIN files :
        /\ files[j].status = "completed"
        /\ \/ truthy(files[j].text)
           \/ files[j].keyframes.set
           \/ truthy(files[j].data) /\ startsWith(files[j].type, "audio/") }

\* the binary parts are the contributions of the completed attachments, in
\* collection order, and the text part quotes the completed attachments only
BuiltFromCompleted ==
    FileGeneration =>
        /\ attachments = Join([j \in 1..Len(files) |-> Contribution(files[j])])
        /\ Len(parts) = 1 + Len(attachments)
        /\ \A k \in 1..Len(attachments) : parts[k + 1].inlineData = attachments[k]
        /\ Cardinality(Quoted) = Cardinality(Quotable)

\* a generation starts from the file mode only when no attachment is being
\* processed
StartsWithNoneProcessing ==
    (generations' = generations + 1 /\ mode = "file") =>
        /\ Len(files) > 0
        /\ \A j \in DOMAIN files : files[j].status # "processing"

\* C32: in file mode a generation is never started while an attachment is
\* processing, and the payload is built from the completed attachments only,
\* each contributing its parts in collection order, a video one image/jpeg
\* part per keyframe in keyframe order; an attachment in error contributes
\* neither a binary part nor text.
C32_SubmissionGated == [](BuiltFromCompleted) /\ [][StartsWithNoneProcessing]_vars

C32_Witness ==
    /\ FileGeneration
    /\ Len(files) = 2
    /\ files[1].status = "error"
    /\ files[2].status = "completed"
    /\ files[2].keyframes.set
    /\ Len(parts) = 4
    /\ Cardinality(Quoted) = 1


(***************************************************************************)
(* Properties of a removed attachment                                      *)
(***************************************************************************)
\* no record of the collection bears a removed identifier
RemovedStayOut ==
    \A id \in removed : \A k \in DOMAIN files : files[k].id # id

\* a tick, a completion or a failure of the normalization of a removed
\* attachment leaves the collection as it is
LateUpdateStep ==
    \A id \in removed : norm'[id] # norm[id] => files' = files

\* C33: once removeFile(id) has been applied, every later progress tick,
\* completion or failure of that attachment's normalization leaves the
\* collection unchanged: the identifier does not come back and no other
\* record is altered.
C33_RemovedNeverReturns == [](RemovedStayOut) /\ [][LateUpdateStep]_vars

C33_Witness ==
    /\ removed = {1, 2}
    /\ norm[1].phase = "failed"
    /\ norm[1].p = 105
    /\ norm[2].phase = "done"
    /\ norm[2].loaded = <<>>
    /\ Len(files) = 1
    /\ files[1].id = 3

====
